---- MODULE Spec2Model ----
(***************************************************************************)
(* Model of the telegram-bot scheduler (weather_scheduler.py), its manual  *)
(* command handlers (bot_commands.py) and the news aggregation / delivery  *)
(* pipeline (news_scraper.py, news_bot.py).                                *)
(*                                                                         *)
(* The specifications of the module:                                       *)
(*   Spec        the scheduler process: startup recovery, the poll loop    *)
(*               with its heartbeat, weather_job / news_job, their retry   *)
(*               threads, the Job State Store file, process stop and       *)
(*               restart;                                                  *)
(*   TestRunSpec the scheduler process with --test runs beside it;         *)
(*   MidnightSpec the scheduler process from 23:50 of one date to the      *)
(*               weather trigger of the next;                              *)
(*   AggSpec     runs of send_news: scrape_all_keywords with the Dedup     *)
(*               Store file, followed by chunked delivery;                 *)
(*   FnSpec      single calls of the pure functions and file readers;      *)
(*   ListenSpec  the poll loop of the command listener thread.             *)
(***************************************************************************)
EXTENDS Integers, Sequences, FiniteSets, TLC

VARIABLES
    \* ---- scheduler process (Spec) ----
    now,          \* the KST wall clock: [day, sec]
    stateFile,    \* scheduler_state.json: [valid, done, hb]
    mainT,        \* the main thread: [pc, ret, idx, cur, key, st, args]
    nextRun,      \* schedule library: day of each trigger's next_run
    lastHb,       \* main(): last_heartbeat, absolute seconds
    threads,      \* retry threads: slot -> [pc, key, i, wake, st]
    cmd,          \* the command whose handler thread is running, or "none"
    starts,       \* number of process starts so far
    testT,        \* a --test run beside the scheduler process: [pc, key, st]
    okDay,        \* history: key -> day the job body last returned ok = true
    markDay,      \* history: key -> day _mark_done last wrote the key's marker
    saveFailDay,  \* history: key -> day _mark_done last raised after a success
    exhaustDay,   \* history: key -> day a retry sequence last ran out
    stopDay,      \* history: key -> day a retry last found the key done after its sleep
    \* ---- aggregation runs (AggSpec) ----
    hashFile,     \* news_sent_hashes.json: [valid, tracked, filler]
    runs,         \* send_news invocations: slot -> record
    delivered,    \* history: fingerprints of items whose chunk was sent ok
    lastOut,      \* history: items output by the latest completed scrape
    \* ---- single calls of functions (FnSpec) ----
    fnArg,        \* the function called and its arguments
    fnRes,        \* [done, raised, value]: what the call returned or raised
    \* ---- command listener thread (ListenSpec) ----
    lsn,          \* listener(): [pc, offset, conflict_count, updates, resp, sleep,
                  \*   running] and the history fields top and handled
    streak        \* history: Conflict responses in a row up to the last poll

schedVars == <<now, stateFile, mainT, nextRun, lastHb, threads, cmd,
               starts, testT, okDay, markDay, saveFailDay, exhaustDay, stopDay>>
aggVars == <<hashFile, runs, delivered, lastOut>>
fnVars == <<fnArg, fnRes>>
lsnVars == <<lsn, streak>>
vars == <<now, stateFile, mainT, nextRun, lastHb, threads, cmd,
          starts, testT, okDay, markDay, saveFailDay, exhaustDay, stopDay,
          hashFile, runs, delivered, lastOut, fnArg, fnRes, lsn, streak>>

\* What the steps of the scheduler process, and of an aggregation run, leave
\* alone.
nonSchedVars == <<aggVars, fnVars, lsnVars>>
nonAggVars == <<schedVars, fnVars, lsnVars>>
nonFnVars == <<schedVars, aggVars, lsnVars>>
nonLsnVars == <<schedVars, aggVars, fnVars>>

(***************************************************************************)
(* Bounds of the model.                                                    *)
(***************************************************************************)
MaxDay == 1
MaxStarts == 2
MaxThreads == 2
MaxRuns == 1
NumKeywords == 2
MaxRaw == 2
MaxText == 6
MaxMaxLen == 3
MaxCand == 7
MaxAlt == 2
MaxCount == 2
MaxConflicts == 7
MaxUpdateId == 3
MaxBatch == 2
MaxHandlers == 1
MaxField == 2

(***************************************************************************)
(* Configuration and constants of the program.                             *)
(***************************************************************************)
HM(h, m) == h * 60 + m
HMS(h, m, s) == (h * 60 + m) * 60 + s

\* config.py: WEATHER_SCHEDULE_TIME = "07:30" (as a minute of the day; the
\* zero-padded HH:MM strings compare like these numbers).
WEATHER_SCHEDULE_TIME == HM(7, 30)

\* config.py: NEWS_SCHEDULE_TIMES, a comma-separated environment setting
\* (default "08:00,18:00") that may list any number of times: here the
\* default times and a second morning time.
NEWS_SCHEDULE_TIMES == <<HM(8, 0), HM(8, 5), HM(18, 0)>>

\* weather_scheduler.py: RETRY_DELAYS_MIN = [5, 10]
RETRY_DELAYS_MIN == <<5, 10>>

\* weather_scheduler.py main(): heartbeat_interval = 3600
heartbeat_interval == 3600

Keys == {"weather", "news_am", "news_pm"}
Commands == {"weather", "news"}

\* The instants of a day at which the model observes the clock.
Instants == << HMS(6, 35, 0), HMS(7, 30, 0), HMS(7, 30, 30), HMS(7, 35, 0),
               HMS(7, 45, 0), HMS(8, 0, 0), HMS(8, 5, 0), HMS(18, 30, 0) >>

SecondsPerDay == 24 * 60 * 60

Abs(t) == (t.day - 1) * SecondsPerDay + t.sec

\* _now().strftime("%H:%M"): the seconds are dropped.
StrfHM(sec) == sec \div 60

\* now.hour
Hour(sec) == sec \div 3600

\* _now().strftime("%Y-%m-%d")
Today == now.day

(***************************************************************************)
(* The Job State Store: scheduler_state.json.                              *)
(***************************************************************************)
EmptyDone == [k \in Keys |-> 0]

\* What _load_state returns for {} (no file, or a file that is not JSON).
EmptyState == [done |-> EmptyDone, hb |-> 0]

\* The file before the first write, and a file cut short by a failed write.
MissingFile == [valid |-> TRUE, done |-> EmptyDone, hb |-> 0]
TruncatedFile == [valid |-> FALSE, done |-> EmptyDone, hb |-> 0]

\* _load_state(): the parsed map, or {} when the content is not valid JSON.
LoadState(f) == IF f.valid THEN [done |-> f.done, hb |-> f.hb] ELSE EmptyState

\* _save_state(state): Path.write_text opens the file for writing (which
\* empties it) and then writes; it can raise before the open succeeds
\* ("denied": the file is untouched) or after it ("truncated").
SaveOutcomes == {"ok", "denied", "truncated"}

WriteText(f, content, outcome) ==
    CASE outcome = "ok" -> [valid |-> TRUE, done |-> content.done, hb |-> content.hb]
      [] outcome = "denied" -> f
      [] outcome = "truncated" -> TruncatedFile

\* _was_done_today(job_key): state.get(job_key) == today
DoneIn(f, key) == LoadState(f).done[key] = Today

WasDoneToday(key) == DoneIn(stateFile, key)

\* _mark_done(job_key), after its _load_state(): the map that is saved.
MarkDoneContent(st, key) ==
    [done |-> [st.done EXCEPT ![key] = Today], hb |-> Today]

\* main(): state["_last_heartbeat"] = _now().isoformat(); the model keeps the
\* date part of the timestamp.
HeartbeatContent(st) == [done |-> st.done, hb |-> Today]

(***************************************************************************)
(* Job bodies and what the scheduler makes of their results.               *)
(***************************************************************************)
\* A call's result: a returned dict (ok, total; total = -1 when the dict has
\* no such key) or a raised exception.
Result(raised, ok, total) == [raised |-> raised, ok |-> ok, total |-> total]

\* The body returned a dict whose "ok" is true.
ReportsOk(r) == ~r.raised /\ r.ok

\* weather_alert.main(): returns send_message's {"ok": True, ...} or
\* {"ok": False, ...}; it catches every exception of its try block, and
\* load_location() before that block can raise.
WeatherResults ==
    { Result(FALSE, TRUE, -1), Result(FALSE, FALSE, -1), Result(TRUE, FALSE, -1) }

\* A send_news whose signature accepted time_label, as news_job assumes.
\* With it news_job would reach its "total == 0" branch on a result whose
\* ok is false.
SendNewsParams_TimeLabel == {"time_label"}

\* news_bot.send_news(): the keyword parameters its signature accepts.
SendNewsParams == {}

\* news_bot.send_news(): what a call that binds its arguments can produce.
SendNewsResults ==
    { Result(FALSE, FALSE, 0),      \* token or channel id not configured
      Result(FALSE, TRUE, 0),       \* no new items
      Result(FALSE, TRUE, 1),       \* every chunk sent
      Result(FALSE, FALSE, 1),      \* some chunk not sent
      Result(TRUE, FALSE, -1) }     \* scraping, saving or sending raised

\* A call send_news(**kwargs): a keyword the signature does not accept
\* raises TypeError before the body runs.
SendNewsCall(kwargs) ==
    IF kwargs \subseteq SendNewsParams THEN SendNewsResults
    ELSE { Result(TRUE, FALSE, -1) }

\* weather_job: result and result.get("ok")
WeatherSuccess(r) == ~r.raised /\ r.ok

\* news_job: result.get("ok"), or result.get("total", -1) == 0
NewsSuccess(r) == ~r.raised /\ (r.ok \/ r.total = 0)

\* The results of the job body as the scheduler calls it for a key:
\* send_weather(), or send_news(time_label=time_label).
JobResults(key) ==
    IF key = "weather" THEN WeatherResults ELSE SendNewsCall({"time_label"})

JobSuccess(key, r) ==
    IF key = "weather" THEN WeatherSuccess(r) ELSE NewsSuccess(r)

(***************************************************************************)
(* Triggers registered with the schedule library: 0 is the weather         *)
(* trigger, i >= 1 the i-th entry of NEWS_SCHEDULE_TIMES.                  *)
(***************************************************************************)
Triggers == 0 .. Len(NEWS_SCHEDULE_TIMES)

TrigHM(j) == IF j = 0 THEN WEATHER_SCHEDULE_TIME ELSE NEWS_SCHEDULE_TIMES[j]

\* _recover_missed_jobs: period = "am" if hour < 12 else "pm", from the
\* trigger's configured hour.
TrigKey(j) ==
    IF j = 0 THEN "weather"
    ELSE IF NEWS_SCHEDULE_TIMES[j] \div 60 < 12 THEN "news_am" ELSE "news_pm"

\* news_job: the period from the wall clock when no override is given.
ClockKey == IF Hour(now.sec) < 12 THEN "news_am" ELSE "news_pm"

\* schedule: the day of the next occurrence of HH:MM:00 after the clock.
NextOccurrence(j) == IF now.sec < TrigHM(j) * 60 THEN now.day ELSE now.day + 1

\* schedule: job.should_run, i.e. next_run <= now.
Due(j) ==
    \/ nextRun[j] < now.day
    \/ nextRun[j] = now.day /\ TrigHM(j) * 60 <= now.sec

\* schedule.run_pending runs the due jobs sorted by next_run.
Before(i, j) ==
    \/ nextRun[i] < nextRun[j]
    \/ nextRun[i] = nextRun[j] /\ TrigHM(i) < TrigHM(j)
    \/ nextRun[i] = nextRun[j] /\ TrigHM(i) = TrigHM(j) /\ i < j

\* No process is running: nothing is scheduled.
NoSchedule == [j \in Triggers |-> 0]

FirstDue(j) == Due(j) /\ \A i \in Triggers : (Due(i) /\ i # j) => Before(j, i)

(***************************************************************************)
(* Threads.                                                                *)
(***************************************************************************)
Slots == 1 .. MaxThreads

\* A retry thread: born is the date on which weather_job / news_job started
\* it (the date of the invocation its retries belong to).
FreeThread == [pc |-> "free", key |-> "none", i |-> 0, wake |-> 0, st |-> EmptyState,
               born |-> 0]

DownMain == [pc |-> "down", ret |-> "none", idx |-> 0, cur |-> 0,
             key |-> "none", st |-> EmptyState, args |-> "none"]

\* The --test run that is not running, and the run after weather_job() or
\* news_job() has returned: main() goes from weather_job() to news_job() and
\* from news_job() to its return, where the run's retry threads, still in
\* their first sleep, end with the process.
TestDown == [pc |-> "down", key |-> "none", st |-> EmptyState]

AfterTestJob(key) ==
    IF key = "weather" THEN [TestDown EXCEPT !.pc = "nj"] ELSE TestDown

\* sys.argv[1:]: no flag, --now or --test.
StartArgs == {"none", "--now", "--test"}

\* No handler thread is running.
NoCmd == "none"

HasFreeSlot == \E t \in Slots : threads[t].pc = "free"

FreeSlot == CHOOSE t \in Slots :
                /\ threads[t].pc = "free"
                /\ \A u \in Slots : threads[u].pc = "free" => t <= u

\* _retry, iteration i, up to its sleep: if _was_done_today(job_key): return;
\* time.sleep(delay_min * 60).  f is the state file as the thread reads it.
RetryIteration(key, i, f, born) ==
    IF DoneIn(f, key) THEN FreeThread
    ELSE [FreeThread EXCEPT !.pc = "sleep", !.key = key, !.i = i, !.born = born,
                            !.wake = Abs(now) + RETRY_DELAYS_MIN[i] * 60]

\* threading.Thread(target=_retry, daemon=True).start(): the thread runs to
\* its first sleep.
StartRetryThread(key, f) ==
    [threads EXCEPT ![FreeSlot] = RetryIteration(key, 1, f, Today)]

\* The main thread after weather_job / news_job returns to its caller:
\* _recover_missed_jobs goes on with the next trigger, schedule's Job.run
\* computes the job's next run, and the --test branch of main() goes on
\* from weather_job() to news_job() and from news_job() to its return.
AfterJob(m) ==
    IF m.ret = "rec"
    THEN [DownMain EXCEPT !.pc = "rec_n", !.idx = m.idx + 1, !.cur = m.cur,
                          !.args = m.args]
    ELSE IF m.ret = "test"
    THEN IF m.idx = 0
         THEN [DownMain EXCEPT !.pc = "nj", !.ret = "test", !.idx = 1]
         ELSE [DownMain EXCEPT !.pc = "exit"]
    ELSE [DownMain EXCEPT !.pc = "loop"]

AfterJobNextRun(m) ==
    IF m.ret = "loop" THEN [nextRun EXCEPT ![m.idx] = NextOccurrence(m.idx)]
    ELSE nextRun

histVars == <<okDay, markDay, saveFailDay, exhaustDay, stopDay>>

(***************************************************************************)
(* Process start and stop.                                                 *)
(***************************************************************************)
\* The process is started: main() installs the signal handlers and reads
\* args = sys.argv[1:].
Start ==
    /\ mainT.pc = "down"
    /\ starts < MaxStarts
    /\ starts' = starts + 1
    /\ \E a \in StartArgs : mainT' = [DownMain EXCEPT !.pc = "args", !.args = a]
    /\ UNCHANGED <<now, stateFile, nextRun, lastHb, threads, cmd,
                   okDay, markDay, saveFailDay, exhaustDay, stopDay>>
    /\ UNCHANGED testT
    /\ UNCHANGED nonSchedVars

\* A main() that runs the recovery only when --now is given.
RecoveryBranch_OnlyNow(args) == IF args = "--now" THEN "rec_w" ELSE "loop"

\* if "--now" in args: _recover_missed_jobs() else: _recover_missed_jobs()
RecoveryBranch(args) == IF args = "--now" THEN "rec_w" ELSE "rec_w"

\* main() after reading args.  With --test: weather_job(); news_job();
\* return.  Otherwise: register the triggers, start the command listener,
\* then the --now branch, where _recover_missed_jobs() reads the clock.
MainDispatch ==
    /\ mainT.pc = "args"
    /\ IF mainT.args = "--test"
       THEN /\ mainT' = [DownMain EXCEPT !.pc = "wj", !.ret = "test", !.idx = 0]
            /\ UNCHANGED <<nextRun, lastHb>>
       ELSE /\ nextRun' = [j \in Triggers |-> NextOccurrence(j)]
            /\ mainT' = [DownMain EXCEPT !.pc = RecoveryBranch(mainT.args),
                                         !.cur = now.sec, !.args = mainT.args]
            /\ lastHb' = IF RecoveryBranch(mainT.args) = "loop" THEN Abs(now)
                         ELSE lastHb
    /\ UNCHANGED <<now, stateFile, threads, cmd, starts>>
    /\ UNCHANGED histVars
    /\ UNCHANGED testT
    /\ UNCHANGED nonSchedVars

\* main() returns after the --test run: the process exits and its daemon
\* threads end with it.
TestExit ==
    /\ mainT.pc = "exit"
    /\ mainT' = DownMain
    /\ threads' = [t \in Slots |-> FreeThread]
    /\ cmd' = NoCmd
    /\ UNCHANGED <<now, stateFile, nextRun, lastHb, starts>>
    /\ UNCHANGED histVars
    /\ UNCHANGED testT
    /\ UNCHANGED nonSchedVars

\* start_command_listener has been called in this process (it is not in
\* the --test branch).
ListenerUp ==
    /\ mainT.pc \notin {"down", "args", "exit"}
    /\ mainT.ret # "test"

\* graceful_shutdown (SIGINT/SIGTERM) or a kill: the process exits and its
\* daemon threads end with it; the state file stays.
Stop ==
    /\ mainT.pc # "down"
    /\ mainT' = DownMain
    /\ threads' = [t \in Slots |-> FreeThread]
    /\ cmd' = NoCmd
    /\ nextRun' = NoSchedule
    /\ lastHb' = 0
    /\ UNCHANGED <<now, stateFile, starts>>
    /\ UNCHANGED histVars
    /\ UNCHANGED testT
    /\ UNCHANGED nonSchedVars

\* The wall clock moves to the next observed instant.
NextInstant(t) ==
    IF \E i \in 1 .. Len(Instants) : Instants[i] > t.sec
    THEN [day |-> t.day,
          sec |-> Instants[CHOOSE i \in 1 .. Len(Instants) :
                      /\ Instants[i] > t.sec
                      /\ \A k \in 1 .. Len(Instants) :
                             Instants[k] > t.sec => Instants[i] <= Instants[k]]]
    ELSE [day |-> t.day + 1, sec |-> Instants[1]]

\* The observed instants are at least 30 seconds apart: the clock reaches
\* the next one while the process is down, or its main thread is idle in
\* the loop, inside a job body or inside a file write, not between two of
\* its statements that do no input or output.
ClockMayAdvance ==
    mainT.pc \in {"down", "loop", "call", "save", "hb_save"}

Tick ==
    /\ NextInstant(now).day <= MaxDay
    /\ ClockMayAdvance
    /\ now' = NextInstant(now)
    /\ UNCHANGED <<stateFile, mainT, nextRun, lastHb, threads, cmd, starts>>
    /\ UNCHANGED histVars
    /\ UNCHANGED testT
    /\ UNCHANGED nonSchedVars

(***************************************************************************)
(* _recover_missed_jobs                                                    *)
(***************************************************************************)
\* current_time = now.strftime("%H:%M");
\* if current_time > WEATHER_SCHEDULE_TIME and not _was_done_today("weather")
RecoverDecision(j, cur) == StrfHM(cur) > TrigHM(j) /\ ~WasDoneToday(TrigKey(j))

RecoverWeather ==
    /\ mainT.pc = "rec_w"
    /\ IF RecoverDecision(0, mainT.cur)
       THEN mainT' = [mainT EXCEPT !.pc = "wj", !.ret = "rec", !.idx = 0]
       ELSE mainT' = [mainT EXCEPT !.pc = "rec_n", !.idx = 1]
    /\ UNCHANGED <<now, stateFile, nextRun, lastHb, threads, cmd, starts>>
    /\ UNCHANGED histVars
    /\ UNCHANGED testT
    /\ UNCHANGED nonSchedVars

\* for news_time in NEWS_SCHEDULE_TIMES: ... news_job(period_override=period)
RecoverNews ==
    /\ mainT.pc = "rec_n"
    /\ mainT.idx <= Len(NEWS_SCHEDULE_TIMES)
    /\ IF RecoverDecision(mainT.idx, mainT.cur)
       THEN mainT' = [mainT EXCEPT !.pc = "nj", !.ret = "rec",
                                   !.key = TrigKey(mainT.idx)]
       ELSE mainT' = [mainT EXCEPT !.idx = mainT.idx + 1]
    /\ UNCHANGED <<now, stateFile, nextRun, lastHb, threads, cmd, starts>>
    /\ UNCHANGED histVars
    /\ UNCHANGED testT
    /\ UNCHANGED nonSchedVars

\* main(): recovery is over; last_heartbeat = time.time(); while True: ...
EnterLoop ==
    /\ mainT.pc = "rec_n"
    /\ mainT.idx > Len(NEWS_SCHEDULE_TIMES)
    /\ mainT' = [DownMain EXCEPT !.pc = "loop"]
    /\ lastHb' = Abs(now)
    /\ UNCHANGED <<now, stateFile, nextRun, threads, cmd, starts>>
    /\ UNCHANGED histVars
    /\ UNCHANGED testT
    /\ UNCHANGED nonSchedVars

(***************************************************************************)
(* The poll loop: schedule.run_pending() and the heartbeat.                *)
(***************************************************************************)
RunPending ==
    /\ mainT.pc = "loop"
    /\ \E j \in Triggers :
          /\ FirstDue(j)
          /\ mainT' = [mainT EXCEPT !.pc = IF j = 0 THEN "wj" ELSE "nj",
                                    !.ret = "loop", !.idx = j, !.key = "none"]
    /\ UNCHANGED <<now, stateFile, nextRun, lastHb, threads, cmd, starts>>
    /\ UNCHANGED histVars
    /\ UNCHANGED testT
    /\ UNCHANGED nonSchedVars

\* if time.time() - last_heartbeat >= heartbeat_interval: state = _load_state()
HeartbeatLoad ==
    /\ mainT.pc = "loop"
    /\ Abs(now) - lastHb >= heartbeat_interval
    /\ mainT' = [mainT EXCEPT !.pc = "hb_save", !.st = LoadState(stateFile)]
    /\ UNCHANGED <<now, stateFile, nextRun, lastHb, threads, cmd, starts>>
    /\ UNCHANGED histVars
    /\ UNCHANGED testT
    /\ UNCHANGED nonSchedVars

\* state["_last_heartbeat"] = ...; _save_state(state); last_heartbeat = ...
\* A write that raises is not caught in main(): the process ends.
HeartbeatSave ==
    /\ mainT.pc = "hb_save"
    /\ \E o \in SaveOutcomes :
          /\ stateFile' = WriteText(stateFile, HeartbeatContent(mainT.st), o)
          /\ IF o = "ok"
             THEN /\ mainT' = [DownMain EXCEPT !.pc = "loop"]
                  /\ lastHb' = Abs(now)
                  /\ UNCHANGED <<threads, cmd, nextRun>>
             ELSE /\ mainT' = DownMain
                  /\ threads' = [t \in Slots |-> FreeThread]
                  /\ cmd' = NoCmd
                  /\ nextRun' = NoSchedule
                  /\ lastHb' = 0
    /\ UNCHANGED <<now, starts>>
    /\ UNCHANGED histVars
    /\ UNCHANGED testT
    /\ UNCHANGED nonSchedVars

(***************************************************************************)
(* weather_job and news_job on the main thread.                            *)
(***************************************************************************)
\* weather_job: if _was_done_today(job_key): return
WeatherJob ==
    /\ mainT.pc = "wj"
    /\ IF WasDoneToday("weather")
       THEN /\ mainT' = AfterJob(mainT)
            /\ nextRun' = AfterJobNextRun(mainT)
       ELSE /\ mainT' = [mainT EXCEPT !.pc = "call", !.key = "weather"]
            /\ UNCHANGED nextRun
    /\ UNCHANGED <<now, stateFile, lastHb, threads, cmd, starts>>
    /\ UNCHANGED histVars
    /\ UNCHANGED testT
    /\ UNCHANGED nonSchedVars

\* news_job: the key from period_override or from now.hour, then
\* if _was_done_today(job_key): return
NewsJobKey(m) == IF m.key # "none" THEN m.key ELSE ClockKey

NewsJob ==
    /\ mainT.pc = "nj"
    /\ IF WasDoneToday(NewsJobKey(mainT))
       THEN /\ mainT' = AfterJob(mainT)
            /\ nextRun' = AfterJobNextRun(mainT)
       ELSE /\ mainT' = [mainT EXCEPT !.pc = "call", !.key = NewsJobKey(mainT)]
            /\ UNCHANGED nextRun
    /\ UNCHANGED <<now, stateFile, lastHb, threads, cmd, starts>>
    /\ UNCHANGED histVars
    /\ UNCHANGED testT
    /\ UNCHANGED nonSchedVars

\* The first attempt, send_weather() or send_news(time_label=...), returns
\* or raises.  On success _mark_done loads the state; otherwise the retry
\* thread is started and the job function returns.
JobCall ==
    /\ mainT.pc = "call"
    /\ \E r \in JobResults(mainT.key) :
          /\ okDay' = IF ReportsOk(r) THEN [okDay EXCEPT ![mainT.key] = Today]
                      ELSE okDay
          /\ IF JobSuccess(mainT.key, r)
             THEN /\ mainT' = [mainT EXCEPT !.pc = "save", !.st = LoadState(stateFile)]
                  /\ UNCHANGED <<threads, nextRun>>
             ELSE /\ HasFreeSlot
                  /\ threads' = StartRetryThread(mainT.key, stateFile)
                  /\ mainT' = AfterJob(mainT)
                  /\ nextRun' = AfterJobNextRun(mainT)
    /\ UNCHANGED <<now, stateFile, lastHb, cmd, starts>>
    /\ UNCHANGED <<markDay, saveFailDay, exhaustDay, stopDay>>
    /\ UNCHANGED testT
    /\ UNCHANGED nonSchedVars

\* _mark_done: state[job_key] = today; _save_state(state).  A write that
\* raises is caught by the job's "except Exception" and the retry thread is
\* started.
JobSave ==
    /\ mainT.pc = "save"
    /\ \E o \in SaveOutcomes :
          /\ stateFile' = WriteText(stateFile, MarkDoneContent(mainT.st, mainT.key), o)
          /\ IF o = "ok"
             THEN /\ markDay' = [markDay EXCEPT ![mainT.key] = Today]
                  /\ UNCHANGED <<threads, saveFailDay>>
             ELSE /\ HasFreeSlot
                  /\ threads' = StartRetryThread(mainT.key, stateFile')
                  /\ saveFailDay' = [saveFailDay EXCEPT ![mainT.key] = Today]
                  /\ UNCHANGED markDay
    /\ mainT' = AfterJob(mainT)
    /\ nextRun' = AfterJobNextRun(mainT)
    /\ UNCHANGED <<now, lastHb, cmd, starts>>
    /\ UNCHANGED <<okDay, exhaustDay, stopDay>>
    /\ UNCHANGED testT
    /\ UNCHANGED nonSchedVars

(***************************************************************************)
(* The retry threads: weather_job._retry and news_job._retry.              *)
(***************************************************************************)
\* A retry loop that, when the last retry has failed, goes on to _mark_done
\* instead of ending.
NextIteration_MarksDone(th, f) ==
    IF th.i < Len(RETRY_DELAYS_MIN) THEN RetryIteration(th.key, th.i + 1, f, th.born)
    ELSE [th EXCEPT !.pc = "save", !.st = LoadState(f)]

\* The thread after a failed iteration: the next iteration, or the loop
\* ends ("all retries failed").
NextIteration(th, f) ==
    IF th.i < Len(RETRY_DELAYS_MIN) THEN RetryIteration(th.key, th.i + 1, f, th.born)
    ELSE FreeThread

Exhausted(th) == th.i >= Len(RETRY_DELAYS_MIN)

\* A retry that calls the body after its sleep without looking at the
\* Job State Store again.
DoneAfterSleep_NotChecked(job_key) == FALSE

\* _retry after time.sleep(delay_min * 60): if _was_done_today(job_key)
DoneAfterSleep(job_key) == WasDoneToday(job_key)

\* The sleep is over: if _was_done_today(job_key): return; else the body
\* is called.
RetryWake(t) ==
    /\ threads[t].pc = "sleep"
    /\ Abs(now) >= threads[t].wake
    /\ IF DoneAfterSleep(threads[t].key)
       THEN /\ threads' = [threads EXCEPT ![t] = FreeThread]
            /\ stopDay' = [stopDay EXCEPT ![threads[t].key] = Today]
       ELSE /\ threads' = [threads EXCEPT ![t] =
                              [threads[t] EXCEPT !.pc = "call", !.wake = 0]]
            /\ UNCHANGED stopDay
    /\ UNCHANGED <<now, stateFile, mainT, nextRun, lastHb, cmd, starts>>
    /\ UNCHANGED <<okDay, markDay, saveFailDay, exhaustDay>>
    /\ UNCHANGED testT
    /\ UNCHANGED nonSchedVars

\* The retried body returns or raises: _mark_done on success, else the next
\* delay, or "all retries failed" after the last one.
RetryCall(t) ==
    /\ threads[t].pc = "call"
    /\ \E r \in JobResults(threads[t].key) :
          /\ okDay' = IF ReportsOk(r) THEN [okDay EXCEPT ![threads[t].key] = Today]
                      ELSE okDay
          /\ IF JobSuccess(threads[t].key, r)
             THEN /\ threads' = [threads EXCEPT ![t] =
                         [threads[t] EXCEPT !.pc = "save", !.st = LoadState(stateFile)]]
                  /\ UNCHANGED exhaustDay
             ELSE /\ threads' = [threads EXCEPT ![t] = NextIteration(threads[t], stateFile)]
                  /\ exhaustDay' = IF Exhausted(threads[t])
                                   THEN [exhaustDay EXCEPT ![threads[t].key] = Today]
                                   ELSE exhaustDay
    /\ UNCHANGED <<now, stateFile, mainT, nextRun, lastHb, cmd, starts>>
    /\ UNCHANGED <<markDay, saveFailDay, stopDay>>
    /\ UNCHANGED testT
    /\ UNCHANGED nonSchedVars

\* _mark_done in the retry thread; a write that raises is caught by the
\* loop's "except Exception" and the loop goes on.
RetrySave(t) ==
    /\ threads[t].pc = "save"
    /\ \E o \in SaveOutcomes :
          /\ stateFile' = WriteText(stateFile,
                                    MarkDoneContent(threads[t].st, threads[t].key), o)
          /\ IF o = "ok"
             THEN /\ threads' = [threads EXCEPT ![t] = FreeThread]
                  /\ markDay' = [markDay EXCEPT ![threads[t].key] = Today]
                  /\ UNCHANGED <<saveFailDay, exhaustDay>>
             ELSE /\ threads' = [threads EXCEPT ![t] = NextIteration(threads[t], stateFile')]
                  /\ saveFailDay' = [saveFailDay EXCEPT ![threads[t].key] = Today]
                  /\ exhaustDay' = IF Exhausted(threads[t])
                                   THEN [exhaustDay EXCEPT ![threads[t].key] = Today]
                                   ELSE exhaustDay
                  /\ UNCHANGED markDay
    /\ UNCHANGED <<now, mainT, nextRun, lastHb, cmd, starts>>
    /\ UNCHANGED <<okDay, stopDay>>
    /\ UNCHANGED testT
    /\ UNCHANGED nonSchedVars

(***************************************************************************)
(* python weather_scheduler.py --test, run while the scheduler process is  *)
(* up: a second process on the same Job State Store file.                  *)
(***************************************************************************)
\* main(): if "--test" in args: weather_job() ...
TestRunStart ==
    /\ ListenerUp
    /\ testT.pc = "down"
    /\ starts < MaxStarts
    /\ starts' = starts + 1
    /\ testT' = [TestDown EXCEPT !.pc = "wj"]
    /\ UNCHANGED <<now, stateFile, mainT, nextRun, lastHb, threads, cmd>>
    /\ UNCHANGED histVars
    /\ UNCHANGED nonSchedVars

\* weather_job / news_job of the run: if _was_done_today(job_key): return
TestRunJob ==
    /\ testT.pc \in {"wj", "nj"}
    /\ LET key == IF testT.pc = "wj" THEN "weather" ELSE ClockKey
       IN  testT' = IF WasDoneToday(key) THEN AfterTestJob(key)
                    ELSE [testT EXCEPT !.pc = "call", !.key = key]
    /\ UNCHANGED <<now, stateFile, mainT, nextRun, lastHb, threads, cmd, starts>>
    /\ UNCHANGED histVars
    /\ UNCHANGED nonSchedVars

\* The run's first attempt returns or raises: _mark_done on success, else
\* the job function starts its retry thread and returns.
TestRunCall ==
    /\ testT.pc = "call"
    /\ \E r \in JobResults(testT.key) :
          /\ okDay' = IF ReportsOk(r) THEN [okDay EXCEPT ![testT.key] = Today]
                      ELSE okDay
          /\ testT' = IF JobSuccess(testT.key, r)
                      THEN [testT EXCEPT !.pc = "save", !.st = LoadState(stateFile)]
                      ELSE AfterTestJob(testT.key)
    /\ UNCHANGED <<now, stateFile, mainT, nextRun, lastHb, threads, cmd, starts>>
    /\ UNCHANGED <<markDay, saveFailDay, exhaustDay, stopDay>>
    /\ UNCHANGED nonSchedVars

\* _mark_done of the run: state[job_key] = today; _save_state(state).
TestRunSave ==
    /\ testT.pc = "save"
    /\ \E o \in SaveOutcomes :
          /\ stateFile' = WriteText(stateFile, MarkDoneContent(testT.st, testT.key), o)
          /\ IF o = "ok"
             THEN /\ markDay' = [markDay EXCEPT ![testT.key] = Today]
                  /\ UNCHANGED saveFailDay
             ELSE /\ saveFailDay' = [saveFailDay EXCEPT ![testT.key] = Today]
                  /\ UNCHANGED markDay
    /\ testT' = AfterTestJob(testT.key)
    /\ UNCHANGED <<now, mainT, nextRun, lastHb, threads, cmd, starts>>
    /\ UNCHANGED <<okDay, exhaustDay, stopDay>>
    /\ UNCHANGED nonSchedVars

(***************************************************************************)
(* Manual commands: /날씨 and /뉴스.                                       *)
(***************************************************************************)
\* A handler that declines when its job is marked done today (/뉴스 by the
\* period of the clock).
CmdAttempts_UnlessDone(c) ==
    ~WasDoneToday(IF c = "weather" THEN "weather" ELSE ClockKey)

\* _cmd_weather_now / _cmd_news_now: whether the handler goes on to fetch
\* and send.  Neither reads the Job State Store.
CmdAttempts(c) == TRUE

\* handle_message: _run_in_thread(_cmd_weather_now | _cmd_news_now, ...);
\* the handler thread starts on get_weather_message + send_message, or on
\* send_news().
CmdHandle(c) ==
    /\ ListenerUp
    /\ cmd = NoCmd
    /\ CmdAttempts(c)
    /\ cmd' = c
    /\ UNCHANGED <<now, stateFile, mainT, nextRun, lastHb, threads, starts>>
    /\ UNCHANGED histVars
    /\ UNCHANGED testT
    /\ UNCHANGED nonSchedVars

\* The handler ends.
CmdDone(c) ==
    /\ cmd = c
    /\ cmd' = NoCmd
    /\ UNCHANGED <<now, stateFile, mainT, nextRun, lastHb, threads, starts>>
    /\ UNCHANGED histVars
    /\ UNCHANGED testT
    /\ UNCHANGED nonSchedVars

(***************************************************************************)
(* news_scraper.py: fingerprints and the Dedup Store file.                 *)
(***************************************************************************)
\* Strings are sequences of characters.
IsSpace(c) == c = " "

RECURSIVE LStrip(_)
LStrip(str) ==
    IF str # <<>> /\ IsSpace(Head(str)) THEN LStrip(Tail(str)) ELSE str

RECURSIVE RStrip(_)
RStrip(str) ==
    IF str # <<>> /\ IsSpace(str[Len(str)])
    THEN RStrip(SubSeq(str, 1, Len(str) - 1))
    ELSE str

\* str.strip()
Strip(str) == LStrip(RStrip(str))

\* _article_hash(title, link): md5 of f"{title.strip()}|{link.strip()}".
\* The digest is modelled as injective: it is the digested string itself.
ArticleHash(title, link) == Strip(title) \o <<"|">> \o Strip(link)

\* The articles the news source can show, as (title, link) pairs.
Article(title, link) == [title |-> title, link |-> link]

Items == { Article(<<"a">>, <<"x">>),
           Article(<<"a", " ">>, <<"x">>),
           Article(<<"b">>, <<"x">>),
           Article(<<"c">>, <<"x">>) }

Hash(a) == ArticleHash(a.title, a.link)

Hashes == { Hash(a) : a \in Items }

\* _save_sent_hashes: hash_list = list(hashes)[-2000:]
HashCap == 2000

\* config.py: NEWS_COUNT_PER_KEYWORD (environment setting, default 3)
NEWS_COUNT_PER_KEYWORD == 1

\* scrape_all_keywords: scrape_naver_news(keyword, count=count_per + 3)
RawMargin == 3

\* The Dedup Store holds fingerprints of the articles above ("tracked") and
\* fingerprints of older articles the source no longer shows ("filler",
\* of which only the number matters).
StoreSize(h) == Cardinality(h.tracked) + h.filler

EmptyStore == [tracked |-> {}, filler |-> 0]

\* _load_sent_hashes(): set(data["hashes"]), or set() when the file is
\* missing or is not JSON.
LoadSentHashes(f) ==
    IF f.valid THEN [tracked |-> f.tracked, filler |-> f.filler] ELSE EmptyStore

TruncatedHashFile == [valid |-> FALSE, tracked |-> {}, filler |-> 0]

\* A save that writes list(hashes) whole.
TrimChoices_KeepAll(h) == {h}

\* list(hashes)[-2000:]: the last 2000 elements in the iteration order of a
\* Python set of strings, which is not the insertion order; any
\* len(hashes) - 2000 elements may be the ones left out.
TrimChoices(h) ==
    LET excess == IF StoreSize(h) > HashCap THEN StoreSize(h) - HashCap ELSE 0
    IN  { [tracked |-> h.tracked \ d, filler |-> h.filler - (excess - Cardinality(d))] :
            d \in { x \in SUBSET h.tracked :
                      /\ Cardinality(x) <= excess
                      /\ excess - Cardinality(x) <= h.filler } }

\* A filter that looks only at the loaded store, not at the hashes accepted
\* earlier in the run.
RECURSIVE FilterArticles_StoreOnly(_, _, _, _, _)
FilterArticles_StoreOnly(raw, sent, new, kept, countPer) ==
    IF raw = <<>> THEN [kept |-> kept, new |-> new]
    ELSE LET h == Hash(Head(raw))
             take == h \notin sent
             kept2 == IF take THEN Append(kept, Head(raw)) ELSE kept
             new2 == IF take THEN new \cup {h} ELSE new
         IN  IF Len(kept2) >= countPer THEN [kept |-> kept2, new |-> new2]
             ELSE FilterArticles_StoreOnly(Tail(raw), sent, new2, kept2, countPer)

\* scrape_all_keywords, the loop over one keyword's raw articles: an article
\* is kept when its hash is in neither sent_hashes nor new_hashes, until
\* count_per are kept.  Returns [kept, new].
RECURSIVE FilterArticles(_, _, _, _, _)
FilterArticles(raw, sent, new, kept, countPer) ==
    IF raw = <<>> THEN [kept |-> kept, new |-> new]
    ELSE LET h == Hash(Head(raw))
             take == h \notin sent /\ h \notin new
             kept2 == IF take THEN Append(kept, Head(raw)) ELSE kept
             new2 == IF take THEN new \cup {h} ELSE new
         IN  IF Len(kept2) >= countPer THEN [kept |-> kept2, new |-> new2]
             ELSE FilterArticles(Tail(raw), sent, new2, kept2, countPer)

\* scrape_naver_news(keyword, count): articles[:count] of what the page
\* shows; the page is an input.
RawLists ==
    UNION { [1 .. n -> Items] : n \in 0 .. MaxRaw }

Truncate(seq, n) == IF Len(seq) <= n THEN seq ELSE SubSeq(seq, 1, n)

Range(seq) == { seq[i] : i \in 1 .. Len(seq) }

(***************************************************************************)
(* news_bot.send_news: one run is scrape_all_keywords followed by the      *)
(* delivery of the message in chunks.                                      *)
(***************************************************************************)
RunSlots == 1 .. MaxRuns

IdleRun == [pc |-> "idle", sent |-> EmptyStore, new |-> {}, kw |-> 0,
            out |-> <<>>, prev |-> {}, unsent |-> <<>>, allOk |-> TRUE]

\* sent_hashes = _load_sent_hashes(); all_results = {}; new_hashes = set()
RunStart(r) ==
    /\ runs[r].pc = "idle"
    /\ runs' = [runs EXCEPT ![r] =
          [IdleRun EXCEPT !.pc = "scrape", !.sent = LoadSentHashes(hashFile),
                          !.kw = 1, !.prev = lastOut]]
    /\ UNCHANGED <<hashFile, delivered, lastOut>>
    /\ UNCHANGED nonAggVars

\* One keyword: the page is fetched and its articles are filtered.
ScrapeKeyword(r) ==
    /\ runs[r].pc = "scrape"
    /\ runs[r].kw <= NumKeywords
    /\ \E page \in RawLists :
          LET raw == Truncate(page, NEWS_COUNT_PER_KEYWORD + RawMargin)
              res == FilterArticles(raw, runs[r].sent.tracked, runs[r].new, <<>>,
                                    NEWS_COUNT_PER_KEYWORD)
          IN  runs' = [runs EXCEPT ![r] =
                  [runs[r] EXCEPT !.new = res.new, !.kw = runs[r].kw + 1,
                                  !.out = runs[r].out \o res.kept]]
    /\ UNCHANGED <<hashFile, delivered, lastOut>>
    /\ UNCHANGED nonAggVars

\* sent_hashes.update(new_hashes); _save_sent_hashes(sent_hashes); return.
\* A write that raises ends send_news with the exception.  In send_news,
\* total == 0 returns {"ok": True, "total": 0} without sending.
SaveSentHashes(r) ==
    /\ runs[r].pc = "scrape"
    /\ runs[r].kw > NumKeywords
    /\ LET merged == [tracked |-> runs[r].sent.tracked \cup runs[r].new,
                      filler |-> runs[r].sent.filler]
       IN  \E o \in SaveOutcomes, kept \in TrimChoices(merged) :
              /\ hashFile' = CASE o = "ok" -> [valid |-> TRUE, tracked |-> kept.tracked,
                                               filler |-> kept.filler]
                               [] o = "denied" -> hashFile
                               [] o = "truncated" -> TruncatedHashFile
              /\ IF o = "ok"
                 THEN /\ runs' = [runs EXCEPT ![r] =
                             [runs[r] EXCEPT !.pc = IF runs[r].out = <<>> THEN "done"
                                                    ELSE "send",
                                             !.unsent = runs[r].out]]
                      /\ lastOut' = Range(runs[r].out)
                 ELSE /\ runs' = [runs EXCEPT ![r] = [runs[r] EXCEPT !.pc = "raised"]]
                      /\ UNCHANGED lastOut
    /\ UNCHANGED delivered
    /\ UNCHANGED nonAggVars

\* for chunk in chunks: result = send_message(token, channel_id, chunk).
\* A chunk carries the next n articles; send_message returns ok, returns
\* not ok, or raises (its _save_history can).
SendOutcomes == {"ok", "fail", "raise"}

SendChunk(r) ==
    /\ runs[r].pc = "send"
    /\ \E n \in 1 .. Len(runs[r].unsent), o \in SendOutcomes :
          LET chunk == SubSeq(runs[r].unsent, 1, n)
              rest == SubSeq(runs[r].unsent, n + 1, Len(runs[r].unsent))
          IN  /\ delivered' = IF o = "ok"
                              THEN delivered \cup { Hash(a) : a \in Range(chunk) }
                              ELSE delivered
              /\ runs' = [runs EXCEPT ![r] =
                    IF o = "raise" THEN [runs[r] EXCEPT !.pc = "raised"]
                    ELSE [runs[r] EXCEPT !.unsent = rest,
                                         !.allOk = runs[r].allOk /\ o = "ok",
                                         !.pc = IF rest = <<>> THEN "done" ELSE "send"]]
    /\ UNCHANGED <<hashFile, lastOut>>
    /\ UNCHANGED nonAggVars

\* send_news returns {"ok": success_count == len(chunks), "total": total},
\* or its exception reaches the caller.
RunEnd(r) ==
    /\ runs[r].pc \in {"done", "raised"}
    /\ runs' = [runs EXCEPT ![r] = IdleRun]
    /\ UNCHANGED <<hashFile, delivered, lastOut>>
    /\ UNCHANGED nonAggVars

(***************************************************************************)
(* The scheduler specification.                                            *)
(***************************************************************************)
(***************************************************************************)
(* Single calls of functions: the call is pending, then it has returned a  *)
(* value or raised.                                                        *)
(***************************************************************************)
Pending == [done |-> FALSE]
Returned(v) == [done |-> TRUE, raised |-> FALSE, value |-> v]
Raised(e) == [done |-> TRUE, raised |-> TRUE, value |-> e]

\* The call of fn has returned (not raised).
HasReturned(fn) == fnArg.fn = fn /\ fnRes.done /\ ~fnRes.raised

(***************************************************************************)
(* news_bot._split_message                                                 *)
(***************************************************************************)

NL == "\n"

\* text.split("\n"): the lines between the newlines, empty ones included.
RECURSIVE SplitLines(_, _)
SplitLines(text, line) ==
    IF text = <<>> THEN <<line>>
    ELSE IF Head(text) = NL THEN <<line>> \o SplitLines(Tail(text), <<>>)
    ELSE SplitLines(Tail(text), Append(line, Head(text)))

\* The for loop of _split_message over the remaining lines.
RECURSIVE SplitLoop(_, _, _, _)
SplitLoop(lines, chunks, current, max_len) ==
    IF lines = <<>>
    THEN IF current # <<>> THEN Append(chunks, current) ELSE chunks
    ELSE LET line == Head(lines)
             candidate == IF current # <<>> THEN current \o <<NL>> \o line ELSE line
         IN  IF Len(candidate) <= max_len
             THEN SplitLoop(Tail(lines), chunks, candidate, max_len)
             ELSE SplitLoop(Tail(lines),
                            IF current # <<>> THEN Append(chunks, current) ELSE chunks,
                            line, max_len)

\* _split_message(text, max_len)
SplitMessage(text, max_len) ==
    IF Len(text) <= max_len THEN <<text>>
    ELSE SplitLoop(SplitLines(text, <<>>), <<>>, <<>>, max_len)

\* The texts and caps the calls are made with.
Texts == UNION { [1 .. n -> {"x", NL}] : n \in 0 .. MaxText }

SplitArgs ==
    { [fn |-> "_split_message", text |-> t, max_len |-> m] :
        t \in Texts, m \in 1 .. MaxMaxLen }

CallSplitMessage ==
    /\ fnArg.fn = "_split_message"
    /\ ~fnRes.done
    /\ fnRes' = Returned(SplitMessage(fnArg.text, fnArg.max_len))
    /\ UNCHANGED fnArg
    /\ UNCHANGED nonFnVars

(***************************************************************************)
(* news_scraper.scrape_naver_news: the extraction strategies and the       *)
(* exclusion filter.  A document (soup) is described by what each strategy *)
(* finds in it; an article carries the outcome of _is_avian_flu on it.     *)
(***************************************************************************)
\* fetch_count = count + 5
FetchMargin == 5

Found(id, avian) == [id |-> id, avian |-> avian]

\* A div.news_area without an a.news_tit.
NoTitle == [id |-> "no_tit", avian |-> FALSE]

\* _is_avian_flu(article)
IsAvianFlu(article) == article.avian

\* keyword.lower().replace(" ", "")
LowerChar(c) == IF c = "A" THEN "a" ELSE IF c = "I" THEN "i" ELSE c

RECURSIVE Normalize(_)
Normalize(keyword) ==
    IF keyword = <<>> THEN <<>>
    ELSE IF Head(keyword) = " " THEN Normalize(Tail(keyword))
    ELSE <<LowerChar(Head(keyword))>> \o Normalize(Tail(keyword))

\* ai_keywords (its "ai" member; the others behave alike)
ai_keywords == { <<"a", "i">> }

\* _parse_sds(soup, count): one article per Profile, until count are found.
ParseSds(soup, count) == Truncate(soup.sds, count)

\* _parse_legacy(soup, count): the first count div.news_area, those without
\* a title link skipped.
ParseLegacy(soup, count) ==
    SelectSeq(Truncate(soup.legacy, count), LAMBDA a : a # NoTitle)

\* _parse_generic(soup, count): article links, until count are found.
ParseGeneric(soup, count) == Truncate(soup.generic, count)

\* The strategy chain in the order "legacy before sds".
StrategyChain_LegacyFirst(soup, fetch_count) ==
    LET a1 == ParseLegacy(soup, fetch_count)
        a2 == IF a1 = <<>> THEN ParseSds(soup, fetch_count) ELSE a1
        i2 == IF a1 = <<>> THEN <<"legacy", "sds">> ELSE <<"legacy">>
        a3 == IF a2 = <<>> THEN ParseGeneric(soup, fetch_count) ELSE a2
        i3 == IF a2 = <<>> THEN Append(i2, "generic") ELSE i2
    IN  [articles |-> a3, invoked |-> i3]

\* Strategy 1, then 2 if `not articles`, then 3 if `not articles`; invoked
\* records which strategies were called.
StrategyChain(soup, fetch_count) ==
    LET a1 == ParseSds(soup, fetch_count)
        a2 == IF a1 = <<>> THEN ParseLegacy(soup, fetch_count) ELSE a1
        i2 == IF a1 = <<>> THEN <<"sds", "legacy">> ELSE <<"sds">>
        a3 == IF a2 = <<>> THEN ParseGeneric(soup, fetch_count) ELSE a2
        i3 == IF a2 = <<>> THEN Append(i2, "generic") ELSE i2
    IN  [articles |-> a3, invoked |-> i3]

\* for attempt in range(3) ... if ... attempt < 2
MaxAttempts == 3
RetryLimit == 2

\* A request loop that never retries.
MayRetry_Never(resp, attempt) == FALSE

\* if resp is not None and resp.status_code == 403 and attempt < 2
MayRetry(resp, attempt) == resp # "none" /\ resp = "403" /\ attempt < RetryLimit

\* The request loop from iteration attempt on.  net[i] is what the i-th
\* request meets: "ok", a "403" or another "http_error" status (both raised
\* by raise_for_status), or "conn_error", an exception of requests.get
\* itself.  resp is the variable resp: it is assigned only when requests.get
\* returns, so after a "conn_error" it still holds the response of an
\* earlier iteration.  Gives whether soup was set and the requests made.
RECURSIVE RequestLoop(_, _, _)
RequestLoop(net, attempt, resp) ==
    IF attempt >= MaxAttempts THEN [ok |-> FALSE, requests |-> attempt]
    ELSE LET met == net[attempt + 1]
             resp2 == IF met = "conn_error" THEN resp ELSE met
         IN  IF met = "ok" THEN [ok |-> TRUE, requests |-> attempt + 1]
             ELSE IF MayRetry(resp2, attempt)
             THEN RequestLoop(net, attempt + 1, resp2)
             ELSE [ok |-> FALSE, requests |-> attempt + 1]

\* scrape_naver_news(keyword, count): the request loop, and on the parsed
\* document (soup) the strategies, the filter and the cut.
ScrapeNaverNews(keyword, count, net, soup) ==
    LET req == RequestLoop(net, 0, "none")
    IN  IF ~req.ok
        THEN [articles |-> <<>>, invoked |-> <<>>, fetched |-> FALSE,
              requests |-> req.requests]
        ELSE LET chain == StrategyChain(soup, count + FetchMargin)
                 articles == IF Normalize(keyword) \in ai_keywords
                             THEN SelectSeq(chain.articles, LAMBDA a : ~IsAvianFlu(a))
                             ELSE chain.articles
             IN  [articles |-> Truncate(articles, count), invoked |-> chain.invoked,
                  fetched |-> TRUE, requests |-> req.requests]

\* The documents, keywords and counts the calls are made with.
SeqsUpTo(S, n) == UNION { [1 .. k -> S] : k \in 0 .. n }

Soups ==
    { [sds |-> s, legacy |-> l, generic |-> g] :
        s \in SeqsUpTo({Found("s", FALSE), Found("sv", TRUE)}, MaxCand),
        l \in SeqsUpTo({Found("l", FALSE), NoTitle}, MaxAlt),
        g \in SeqsUpTo({Found("g", FALSE)}, MaxAlt) }

ChainKeywords == { <<"A", " ", "i">>, <<"k">> }

\* Every document behind a first request that succeeds, and every course
\* of the three requests in front of one document.
ScrapeArgs ==
    { [fn |-> "scrape_naver_news", keyword |-> k, count |-> c, soup |-> d,
       net |-> <<"ok", "ok", "ok">>] :
        k \in ChainKeywords, c \in 1 .. MaxCount, d \in Soups } \cup
    { [fn |-> "scrape_naver_news", keyword |-> k, count |-> c,
       soup |-> [sds |-> <<Found("s", FALSE)>>, legacy |-> <<>>, generic |-> <<>>],
       net |-> n] :
        k \in ChainKeywords, c \in 1 .. MaxCount,
        n \in [1 .. MaxAttempts -> {"ok", "403", "http_error", "conn_error"}] }

CallScrapeNaverNews ==
    /\ fnArg.fn = "scrape_naver_news"
    /\ ~fnRes.done
    /\ fnRes' = Returned(ScrapeNaverNews(fnArg.keyword, fnArg.count, fnArg.net,
                                         fnArg.soup))
    /\ UNCHANGED fnArg
    /\ UNCHANGED nonFnVars

\* _article_hash on two (title, link) pairs: titles of up to MaxField
\* characters, links that are empty or "|".
HashArgs ==
    { [fn |-> "_article_hash", a |-> Article(t1, l1), b |-> Article(t2, l2)] :
        t1 \in SeqsUpTo({"a", " ", "|"}, MaxField),
        t2 \in SeqsUpTo({"a", " ", "|"}, MaxField),
        l1 \in {<<>>, <<"|">>},
        l2 \in {<<>>, <<"|">>} }

CallArticleHash ==
    /\ fnArg.fn = "_article_hash"
    /\ ~fnRes.done
    /\ fnRes' = Returned(<<ArticleHash(fnArg.a.title, fnArg.a.link),
                           ArticleHash(fnArg.b.title, fnArg.b.link)>>)
    /\ UNCHANGED fnArg
    /\ UNCHANGED nonFnVars

(***************************************************************************)
(* The readers of the two state files, on the text a file can hold: no     *)
(* file, bytes that are not UTF-8, text that is not JSON, or a JSON value  *)
(* of any type.                                                            *)
(***************************************************************************)
JNull == [t |-> "null"]
JNum == [t |-> "number"]
JStr(str) == [t |-> "string", s |-> str]
JArr(items) == [t |-> "array", items |-> items]
JObj(keys, val) == [t |-> "object", keys |-> keys, val |-> val]

EmptyObj == JObj({}, <<>>)

\* d.get(key): the value, or None.
Get(d, key) == IF key \in d.keys THEN d.val[key] ELSE JNull

\* d[key] = value
Put(d, key, value) ==
    JObj(d.keys \cup {key},
         [k \in d.keys \cup {key} |-> IF k = key THEN value ELSE d.val[k]])

\* _now().strftime("%Y-%m-%d") at the call.
FnToday == "d"

\* _load_state(): read_text and json.loads inside
\* try/except (json.JSONDecodeError, KeyError).
LoadStateText(content) ==
    CASE content.kind = "missing" -> Returned(EmptyObj)
      [] content.kind = "not_utf8" -> Raised("UnicodeDecodeError")
      [] content.kind = "not_json" -> Returned(EmptyObj)
      [] content.kind = "json" -> Returned(content.value)

\* _was_done_today(job_key): state.get(job_key) == today
WasDoneTodayText(content, job_key) ==
    LET loaded == LoadStateText(content)
    IN  IF loaded.raised THEN loaded
        ELSE IF loaded.value.t # "object" THEN Raised("AttributeError")
        ELSE Returned(Get(loaded.value, job_key) = JStr(FnToday))

\* _mark_done(job_key): state[job_key] = today;
\* state["_last_heartbeat"] = ...; _save_state(state).  Returns the state
\* that is saved.
MarkDoneText(content, job_key) ==
    LET loaded == LoadStateText(content)
    IN  IF loaded.raised THEN loaded
        ELSE IF loaded.value.t # "object" THEN Raised("TypeError")
        ELSE Returned(Put(Put(loaded.value, job_key, JStr(FnToday)),
                          "_last_heartbeat", JStr(FnToday)))

\* _load_sent_hashes(): exists(), then read_text, json.loads and
\* set(data.get("hashes", [])) inside try/except (json.JSONDecodeError,
\* KeyError).  set(x) of a list of hashable items is the set of the items,
\* of a string the set of its characters (strings here are one character
\* long), of an object the set of its keys; None, a number or a list
\* holding a list or an object raise TypeError.
LoadSentHashesText(content) ==
    CASE content.kind = "missing" -> Returned({})
      [] content.kind = "not_utf8" -> Raised("UnicodeDecodeError")
      [] content.kind = "not_json" -> Returned({})
      [] content.kind = "json" ->
           LET data == content.value
               h == IF "hashes" \in data.keys THEN data.val["hashes"] ELSE JArr(<<>>)
           IN  IF data.t # "object" THEN Raised("AttributeError")
               ELSE CASE h.t = "array" ->
                           IF \A i \in 1 .. Len(h.items) :
                                  h.items[i].t \notin {"array", "object"}
                           THEN Returned(Range(h.items))
                           ELSE Raised("TypeError")
                      [] h.t = "string" -> Returned({JStr(h.s)})
                      [] h.t = "object" -> Returned({JStr(k) : k \in h.keys})
                      [] OTHER -> Raised("TypeError")

\* The JSON values a file can hold; "e" is a date before today.
JsonValues ==
    { JNull, JNum, JStr(FnToday), JArr(<<>>), JArr(<<JStr("h")>>),
      JArr(<<JArr(<<>>)>>), EmptyObj } \cup
    { JObj({k}, [x \in {k} |-> v]) :
        k \in {"weather", "hashes"},
        v \in { JNull, JNum, JStr(FnToday), JStr("e"), JArr(<<>>),
                JArr(<<JStr("h")>>), JArr(<<JArr(<<>>)>>), EmptyObj } }

\* What a state file can hold: no file, bytes that are not UTF-8, text
\* that is not JSON, or JSON text.
Contents ==
    { [kind |-> k] : k \in {"missing", "not_utf8", "not_json"} } \cup
    { [kind |-> "json", value |-> v] : v \in JsonValues }

LoadArgs ==
    { [fn |-> f, content |-> c, job_key |-> k] :
        f \in { "_load_state", "_was_done_today", "_mark_done",
                "_load_sent_hashes", "scrape_all_keywords" },
        c \in Contents, k \in {"weather", "news_am"} }

CallLoadState ==
    /\ fnArg.fn = "_load_state"
    /\ ~fnRes.done
    /\ fnRes' = LoadStateText(fnArg.content)
    /\ UNCHANGED fnArg
    /\ UNCHANGED nonFnVars

CallWasDoneToday ==
    /\ fnArg.fn = "_was_done_today"
    /\ ~fnRes.done
    /\ fnRes' = WasDoneTodayText(fnArg.content, fnArg.job_key)
    /\ UNCHANGED fnArg
    /\ UNCHANGED nonFnVars

CallMarkDone ==
    /\ fnArg.fn = "_mark_done"
    /\ ~fnRes.done
    /\ fnRes' = MarkDoneText(fnArg.content, fnArg.job_key)
    /\ UNCHANGED fnArg
    /\ UNCHANGED nonFnVars

CallLoadSentHashes ==
    /\ fnArg.fn = "_load_sent_hashes"
    /\ ~fnRes.done
    /\ fnRes' = LoadSentHashesText(fnArg.content)
    /\ UNCHANGED fnArg
    /\ UNCHANGED nonFnVars

\* scrape_all_keywords: sent_hashes = _load_sent_hashes() is its first
\* statement and is not inside a try.
CallScrapeAllKeywords ==
    /\ fnArg.fn = "scrape_all_keywords"
    /\ ~fnRes.done
    /\ fnRes' = LoadSentHashesText(fnArg.content)
    /\ UNCHANGED fnArg
    /\ UNCHANGED nonFnVars

(***************************************************************************)
(* One call of send_news, by news_job and by the /뉴스 handler.            *)
(***************************************************************************)
\* news_bot.send_news called with the keyword arguments kwargs, when
\* scrape_naver_news ends for each keyword as collected says ("error": the
\* request failed and [] was returned; "none_new": every article was in the
\* Dedup Store; "items": an article was accepted) and send_message answers
\* the chunks as sends says.  calls counts the send_message calls made.
SendNewsOn(kwargs, collected, sends) ==
    LET total == Cardinality({ k \in DOMAIN collected : collected[k] = "items" })
        raising == { i \in 1 .. Len(sends) : sends[i] = "raise" }
        first == CHOOSE i \in raising : \A j \in raising : i <= j
    IN  IF ~(kwargs \subseteq SendNewsParams)
        THEN [result |-> Result(TRUE, FALSE, -1), calls |-> 0]
        ELSE IF total = 0
        THEN [result |-> Result(FALSE, TRUE, 0), calls |-> 0]
        ELSE IF raising # {}
        THEN [result |-> Result(TRUE, FALSE, -1), calls |-> first]
        ELSE [result |-> Result(FALSE, \A i \in 1 .. Len(sends) : sends[i] = "ok", total),
              calls |-> Len(sends)]

NewsJobArgs ==
    { [fn |-> f, collected |-> c, sends |-> s] :
        f \in {"news_job", "_cmd_news_now"},
        c \in [1 .. NumKeywords -> {"error", "none_new", "items"}],
        s \in SeqsUpTo(SendOutcomes, 2) \ {<<>>} }

\* news_job, first attempt: result = send_news(time_label=time_label); the
\* slot is marked done on ok or on total == 0, else the retry thread starts.
CallNewsJob ==
    /\ fnArg.fn = "news_job"
    /\ ~fnRes.done
    /\ LET r == SendNewsOn({"time_label"}, fnArg.collected, fnArg.sends)
       IN  fnRes' = Returned([result |-> r.result, calls |-> r.calls,
                              next |-> IF NewsSuccess(r.result) THEN "mark_done"
                                       ELSE "retry"])
    /\ UNCHANGED fnArg
    /\ UNCHANGED nonFnVars

\* _cmd_news_now: result = send_news()
CallCmdNewsNow ==
    /\ fnArg.fn = "_cmd_news_now"
    /\ ~fnRes.done
    /\ LET r == SendNewsOn({}, fnArg.collected, fnArg.sends)
       IN  fnRes' = Returned([result |-> r.result, calls |-> r.calls, next |-> "none"])
    /\ UNCHANGED fnArg
    /\ UNCHANGED nonFnVars

(***************************************************************************)
(* bot_commands.start_command_listener: the listener thread's poll loop.   *)
(***************************************************************************)
\* backoff = min(conflict_count * 5, 30); time.sleep(5) after an exception
BackoffStep == 5
BackoffCap == 30
ErrorSleep == 5

Min(a, b) == IF a <= b THEN a ELSE b

\* A backoff that grows without the cap.
Backoff_Uncapped(conflict_count) == conflict_count * BackoffStep

\* min(conflict_count * 5, 30)
Backoff(conflict_count) == Min(conflict_count * BackoffStep, BackoffCap)

\* An update of a batch: a message with a command, a message without
\* "chat" (handle_message raises KeyError on it), or an update that has
\* neither "message" nor "channel_post".
UpdateKinds == {"command", "no_chat", "other"}

Update(id, kind) == [update_id |-> id, kind |-> kind]

\* The batches getUpdates(offset) can return: updates not yet confirmed, in
\* increasing update_id order.
Batches(offset) ==
    { b \in SeqsUpTo({ Update(i, k) : i \in offset .. MaxUpdateId, k \in UpdateKinds },
                      MaxBatch) :
        \A i \in 1 .. Len(b) - 1 : b[i].update_id < b[i + 1].update_id }

\* The highest update_id of a batch, -1 for an empty one.
Top(b) == IF b = <<>> THEN -1 ELSE b[Len(b)].update_id

\* The listener thread at its first poll: offset = 0, conflict_count = 0, no
\* handler thread running.  History: top is the highest update_id of the
\* batch last received, handled[i] counts the calls of handle_message on
\* update i (counted up to 2).
LsnFresh ==
    [pc |-> "poll", offset |-> 0, conflict_count |-> 0, updates |-> <<>>,
     resp |-> "none", sleep |-> 0, running |-> 0, top |-> -1,
     handled |-> [i \in 0 .. MaxUpdateId |-> 0]]

\* The listener thread does not run.
LsnIdle ==
    /\ lsn = [LsnFresh EXCEPT !.pc = "off"]
    /\ streak = 0

\* listener(): _clear_webhook(token); offset = 0; conflict_count = 0
LsnStart ==
    /\ lsn = LsnFresh
    /\ streak = 0

\* updates = _get_updates(token, offset): None on 409, the result list on
\* ok, [] on any other error response or exception.  On None the counter is
\* incremented and the thread sleeps for the backoff; otherwise the counter
\* is reset and the for loop starts.
ListenerPoll ==
    /\ lsn.pc = "poll"
    /\ \/ /\ lsn.conflict_count < MaxConflicts
          /\ lsn' = [lsn EXCEPT !.pc = "backoff", !.resp = "conflict",
                                !.conflict_count = lsn.conflict_count + 1,
                                !.sleep = Backoff(lsn.conflict_count + 1)]
          /\ streak' = streak + 1
       \/ /\ \E b \in Batches(lsn.offset) :
                lsn' = [lsn EXCEPT !.pc = "dispatch", !.resp = "ok",
                                   !.conflict_count = 0, !.updates = b,
                                   !.sleep = 0, !.top = Top(b)]
          /\ streak' = 0
       \/ /\ \E failure \in {"error", "exception"} :
                lsn' = [lsn EXCEPT !.pc = "dispatch", !.resp = failure,
                                   !.conflict_count = 0, !.updates = <<>>,
                                   !.sleep = 0, !.top = -1]
          /\ streak' = 0
    /\ UNCHANGED nonLsnVars

\* time.sleep(backoff) ends; _clear_webhook(token); continue
ListenerBackoffDone ==
    /\ lsn.pc = "backoff"
    /\ lsn' = [lsn EXCEPT !.pc = "poll", !.sleep = 0]
    /\ UNCHANGED streak
    /\ UNCHANGED nonLsnVars

\* An offset that stays on the update just taken.
NextOffset_SameUpdate(update) == update.update_id

\* offset = update["update_id"] + 1
NextOffset(update) == update.update_id + 1

\* A loop whose thread ends on an exception.
OnLoopException_Dies == "dead"

\* except Exception as e: print(...); time.sleep(5), inside `while True`
OnLoopException == "error_sleep"

\* handle_message was called on one more update.
Counted(handled, update) ==
    IF update.kind = "other" THEN handled
    ELSE [handled EXCEPT ![update.update_id] = Min(handled[update.update_id] + 1, 2)]

\* One turn of `for update in updates`: offset = update["update_id"] + 1,
\* then handle_message for a message.  It raises when the message has no
\* "chat", and the exception leaves the for loop for the except clause and
\* time.sleep(5); for a command it starts the handler thread
\* (_run_in_thread) and returns.
ListenerDispatch ==
    /\ lsn.pc = "dispatch"
    /\ lsn.updates # <<>>
    /\ LET update == Head(lsn.updates)
       IN  /\ update.kind = "command" => lsn.running < MaxHandlers
           /\ lsn' = IF update.kind = "no_chat"
                     THEN [lsn EXCEPT !.offset = NextOffset(update),
                                      !.handled = Counted(lsn.handled, update),
                                      !.updates = <<>>, !.pc = OnLoopException,
                                      !.sleep = ErrorSleep]
                     ELSE [lsn EXCEPT !.offset = NextOffset(update),
                                      !.handled = Counted(lsn.handled, update),
                                      !.updates = Tail(lsn.updates),
                                      !.running = IF update.kind = "command"
                                                  THEN lsn.running + 1
                                                  ELSE lsn.running]
    /\ UNCHANGED streak
    /\ UNCHANGED nonLsnVars

\* _safe_run in a handler thread: func(*args) returns, or raises and the
\* exception is caught and logged there; the thread ends.
HandlerEnd ==
    /\ lsn.running > 0
    /\ \E outcome \in {"returns", "raises"} :
          lsn' = [lsn EXCEPT !.running = lsn.running - 1]
    /\ UNCHANGED streak
    /\ UNCHANGED nonLsnVars

\* The for loop is over: next iteration of `while True`.
ListenerBatchDone ==
    /\ lsn.pc = "dispatch"
    /\ lsn.updates = <<>>
    /\ lsn' = [lsn EXCEPT !.pc = "poll"]
    /\ UNCHANGED streak
    /\ UNCHANGED nonLsnVars

\* time.sleep(5) of the except clause ends.
ListenerErrorWake ==
    /\ lsn.pc = "error_sleep"
    /\ lsn' = [lsn EXCEPT !.pc = "poll", !.sleep = 0]
    /\ UNCHANGED streak
    /\ UNCHANGED nonLsnVars

\* No aggregation run, and a Dedup Store that holds filler old fingerprints.
AggStart(filler) ==
    /\ hashFile = [valid |-> TRUE, tracked |-> {}, filler |-> filler]
    /\ runs = [r \in RunSlots |-> IdleRun]
    /\ delivered = {}
    /\ lastOut = {}

SchedStart ==
    /\ now = [day |-> 1, sec |-> Instants[1]]
    /\ stateFile = MissingFile
    /\ mainT = DownMain
    /\ nextRun = NoSchedule
    /\ lastHb = 0
    /\ threads = [t \in Slots |-> FreeThread]
    /\ cmd = NoCmd
    /\ starts = 0
    /\ testT = TestDown
    /\ okDay = EmptyDone
    /\ markDay = EmptyDone
    /\ saveFailDay = EmptyDone
    /\ exhaustDay = EmptyDone
    /\ stopDay = EmptyDone

\* No function call is being observed.
FnIdle ==
    /\ fnArg = [fn |-> "none"]
    /\ fnRes = Pending

Init == SchedStart /\ AggStart(0) /\ FnIdle /\ LsnIdle

Next ==
    \/ Start
    \/ MainDispatch
    \/ TestExit
    \/ Stop
    \/ Tick
    \/ RecoverWeather
    \/ RecoverNews
    \/ EnterLoop
    \/ RunPending
    \/ HeartbeatLoad
    \/ HeartbeatSave
    \/ WeatherJob
    \/ NewsJob
    \/ JobCall
    \/ JobSave
    \/ \E t \in Slots : RetryWake(t)
    \/ \E t \in Slots : RetryCall(t)
    \/ \E t \in Slots : RetrySave(t)
    \/ \E c \in Commands : CmdHandle(c)
    \/ \E c \in Commands : CmdDone(c)

Spec == Init /\ [][Next]_vars

\* The scheduler process with --test runs beside it.
TestRunNext ==
    \/ Next
    \/ TestRunStart
    \/ TestRunJob
    \/ TestRunCall
    \/ TestRunSave

TestRunSpec == Init /\ [][TestRunNext]_vars

(***************************************************************************)
(* The scheduler process around midnight: the same process, observed from  *)
(* 23:50 of one date to the weather trigger of the next.                   *)
(***************************************************************************)
NightInstants ==
    << [day |-> MaxDay, sec |-> HMS(23, 50, 0)],
       [day |-> MaxDay, sec |-> HMS(23, 55, 0)],
       [day |-> MaxDay + 1, sec |-> HMS(0, 5, 0)],
       [day |-> MaxDay + 1, sec |-> HMS(7, 30, 0)] >>

\* The wall clock moves to the next observed instant of the night.
NightTick ==
    /\ ClockMayAdvance
    /\ \E i \in 1 .. Len(NightInstants) - 1 :
          now = NightInstants[i] /\ now' = NightInstants[i + 1]
    /\ UNCHANGED <<stateFile, mainT, nextRun, lastHb, threads, cmd, starts>>
    /\ UNCHANGED histVars
    /\ UNCHANGED testT
    /\ UNCHANGED nonSchedVars

\* No process is running at 23:50 and no job of the date is marked done.
NightStart ==
    /\ now = NightInstants[1]
    /\ stateFile = MissingFile
    /\ mainT = DownMain
    /\ nextRun = NoSchedule
    /\ lastHb = 0
    /\ threads = [t \in Slots |-> FreeThread]
    /\ cmd = NoCmd
    /\ starts = 0
    /\ testT = TestDown
    /\ okDay = EmptyDone
    /\ markDay = EmptyDone
    /\ saveFailDay = EmptyDone
    /\ exhaustDay = EmptyDone
    /\ stopDay = EmptyDone

MidnightInit == NightStart /\ AggStart(0) /\ FnIdle /\ LsnIdle

MidnightNext ==
    \/ Start
    \/ MainDispatch
    \/ TestExit
    \/ Stop
    \/ NightTick
    \/ RecoverWeather
    \/ RecoverNews
    \/ EnterLoop
    \/ RunPending
    \/ HeartbeatLoad
    \/ HeartbeatSave
    \/ WeatherJob
    \/ NewsJob
    \/ JobCall
    \/ JobSave
    \/ \E t \in Slots : RetryWake(t)
    \/ \E t \in Slots : RetryCall(t)
    \/ \E t \in Slots : RetrySave(t)
    \/ \E c \in Commands : CmdHandle(c)
    \/ \E c \in Commands : CmdDone(c)

MidnightSpec == MidnightInit /\ [][MidnightNext]_vars

(***************************************************************************)
(* Properties of the scheduler (checked under Spec).                       *)
(***************************************************************************)
\* The key the main thread's weather_job / news_job is about to check.
CheckedKey == IF mainT.pc = "wj" THEN "weather" ELSE NewsJobKey(mainT)

\* A retry thread has the key's _mark_done still ahead of it.
MarkPending(k) == \E t \in Slots : threads[t].pc = "save" /\ threads[t].key = k

\* An earlier invocation for the key has ended after its body reported
\* success today: its _mark_done wrote the marker, or raised.
EndedWithSuccess(k) ==
    /\ okDay[k] = Today
    /\ markDay[k] = Today \/ saveFailDay[k] = Today
    /\ ~MarkPending(k)

\* A job-body call for the key begins in this step.
BodyCallBegins(k) ==
    \/ mainT.pc # "call" /\ mainT'.pc = "call" /\ mainT'.key = k
    \/ \E t \in Slots : /\ threads[t].pc # "call"
                         /\ threads'[t].pc = "call"
                         /\ threads'[t].key = k

\* C1: once an invocation for a key has ended with the body reporting
\* success on a date, a later weather_job / news_job invocation by the
\* scheduler for that key on that date does not call the body and leaves
\* the Job State Store as it is.
C1_IdempotentAfterSuccess ==
    [][ (mainT.pc \in {"wj", "nj"} /\ mainT' # mainT /\ EndedWithSuccess(CheckedKey))
          => (mainT'.pc # "call" /\ stateFile' = stateFile) ]_vars

\* The job-body invocations and retry sequences in progress for a key.
InProgress(k) ==
    Cardinality({ t \in Slots : threads[t].pc # "free" /\ threads[t].key = k })
       + (IF mainT.pc \in {"call", "save"} /\ mainT.key = k THEN 1 ELSE 0)

\* C2: for no key are two job-body invocations or retry sequences in
\* progress at once.
C2_NoConcurrentSameKey == \A k \in Keys : InProgress(k) <= 1

\* C3: a completion marker that the Job State Store holds for today is still
\* there after every later write that completes (heartbeat or _mark_done).
C3_MarkerNeverReverted ==
    [][ \A k \in Keys :
          (stateFile.valid /\ stateFile.done[k] = Today /\ stateFile'.valid)
             => stateFile'.done[k] = Today ]_vars

\* C4: at startup _recover_missed_jobs invokes the job of a trigger exactly
\* when the trigger's time of day is earlier than the time of day at which
\* recovery read the clock and the trigger's key is not marked done today.
C4_RecoveryExact ==
    [][ /\ (mainT.pc = "rec_w" /\ mainT' # mainT /\ mainT'.pc # "down")
           => ( mainT'.pc = "wj"
                  <=> (TrigHM(0) * 60 < mainT.cur /\ ~WasDoneToday("weather")) )
        /\ (mainT.pc = "rec_n" /\ mainT.idx <= Len(NEWS_SCHEDULE_TIMES)
              /\ mainT' # mainT /\ mainT'.pc # "down")
           => ( mainT'.pc = "nj"
                  <=> ( /\ TrigHM(mainT.idx) * 60 < mainT.cur
                        /\ ~WasDoneToday(TrigKey(mainT.idx)) ) ) ]_vars

\* The manual command that delivers what a job key delivers.
CommandOf(k) == IF k = "weather" THEN "weather" ELSE "news"

\* The last retry of a sequence returns without success in this step of
\* thread t, after a first attempt and an earlier retry that failed too.
LastRetryFails(t) ==
    /\ threads[t].pc = "call"
    /\ threads[t].i = Len(RETRY_DELAYS_MIN)
    /\ threads'[t] # threads[t]
    /\ mainT'.pc # "down"
    /\ okDay'[threads[t].key] # Today

\* C5: when the first attempt and both retries have failed, the retry
\* sequence ends there with the Job State Store not written; and whenever a
\* key's sequence ran out today, a manual command for that job can still
\* start its delivery attempt.
C5_ExhaustionWritesNothing ==
    /\ [][ \A t \in Slots : LastRetryFails(t)
             => /\ threads'[t] = FreeThread
                /\ stateFile' = stateFile
                /\ exhaustDay'[threads[t].key] = Today ]_vars
    /\ [](\A k \in Keys :
            (exhaustDay[k] = Today /\ ListenerUp /\ cmd = NoCmd)
               => ENABLED CmdHandle(CommandOf(k)))

\* C5 witness: the weather sequence ran out today without a success, the
\* slot is not marked done, and the manual weather command is delivering.
C5_Witness ==
    /\ exhaustDay["weather"] = Today
    /\ okDay["weather"] # Today
    /\ ~WasDoneToday("weather")
    /\ cmd = "weather"

\* The first attempt on the main thread returns without success in this step.
FirstAttemptFails ==
    /\ mainT.pc = "call"
    /\ mainT' # mainT
    /\ mainT'.pc # "down"
    /\ okDay'[mainT.key] # Today

\* A retry returns without success in this step of thread t.
RetryFails(t) ==
    /\ threads[t].pc = "call"
    /\ threads'[t] # threads[t]
    /\ mainT'.pc # "down"
    /\ okDay'[threads[t].key] # Today

\* A retry sequence for the key starts in this step: a thread that was free
\* now sleeps the first delay (or found the key done and ended at once).
RetryStarts(k) ==
    \/ DoneIn(stateFile, k)
    \/ \E t \in Slots :
          /\ threads[t].pc = "free"
          /\ threads'[t].pc = "sleep"
          /\ threads'[t].key = k
          /\ threads'[t].i = 1
          /\ threads'[t].wake = Abs(now) + RETRY_DELAYS_MIN[1] * 60

C7_WriteFailureStillDone ==
    [][ \A k \in Keys : saveFailDay[k] = Today => ~BodyCallBegins(k) ]_vars

\* C16: neither state file is ever left empty, truncated or partially
\* written: at every moment each holds a complete content, the previous one
\* or the new one.
C16_FilesNeverPartial == stateFile.valid /\ hashFile.valid

(***************************************************************************)
(* The aggregation specification: runs of send_news against a Dedup Store  *)
(* that is empty, or one or two entries short of its cap, or at its cap.   *)
(***************************************************************************)
AggInit ==
    /\ SchedStart
    /\ \E filler \in {0, HashCap - 2, HashCap - 1, HashCap} : AggStart(filler)
    /\ FnIdle
    /\ LsnIdle

AggNext ==
    \/ \E r \in RunSlots : RunStart(r)
    \/ \E r \in RunSlots : ScrapeKeyword(r)
    \/ \E r \in RunSlots : SaveSentHashes(r)
    \/ \E r \in RunSlots : SendChunk(r)
    \/ \E r \in RunSlots : RunEnd(r)

AggSpec == AggInit /\ [][AggNext]_vars

(***************************************************************************)
(* Properties of the aggregation runs (checked under AggSpec).             *)
(***************************************************************************)
\* The run's scrape_all_keywords has returned its output.
ScrapeComplete(r) == runs[r].pc \in {"send", "done"}

\* C8: no item in the output of a complete scrape_all_keywords run was in
\* the output of the complete run before it.
C8_NoRepeatAcrossRuns ==
    \A r \in RunSlots :
        ScrapeComplete(r) => Range(runs[r].out) \cap runs[r].prev = {}

\* C9: when no run is in progress, every fingerprint in the persisted Dedup
\* Store is that of an item whose chunk was sent successfully.
C9_StoredMeansDelivered ==
    (\A r \in RunSlots : runs[r].pc = "idle")
        => (hashFile.valid => hashFile.tracked \subseteq delivered)

\* C10: the persisted Dedup Store never holds more than 2000 fingerprints.
C10_StoreWithinCap == hashFile.valid => StoreSize(hashFile) <= HashCap

\* C10 witness: a run that loaded a store at or near the cap has saved it
\* together with enough new fingerprints to pass the cap, and the file holds
\* exactly the cap.
C10_Witness ==
    \E r \in RunSlots :
        /\ ScrapeComplete(r)
        /\ StoreSize(runs[r].sent) + Cardinality(runs[r].new) > HashCap
        /\ hashFile.valid
        /\ StoreSize(hashFile) = HashCap

\* The run's _save_sent_hashes completes in this step.
SaveCompletes(r) ==
    /\ runs[r].pc = "scrape"
    /\ runs'[r].pc \in {"send", "done"}

\* C11: the fingerprints a save drops are the oldest ones.  The filler
\* fingerprints were in the store before any fingerprint of the articles the
\* source shows was accepted, so while any filler is kept, no fingerprint the
\* run loaded or accepted is dropped.
C11_OldestEvictedFirst ==
    [][ \A r \in RunSlots :
          (SaveCompletes(r) /\ hashFile'.filler > 0)
             => (runs[r].sent.tracked \cup runs[r].new) \subseteq hashFile'.tracked ]_vars

(***************************************************************************)
(* The function-call specification: one call of a function on each of the  *)
(* enumerated arguments.                                                   *)
(***************************************************************************)
FnInit ==
    /\ SchedStart
    /\ AggStart(0)
    /\ fnArg \in SplitArgs \cup ScrapeArgs \cup LoadArgs \cup HashArgs \cup NewsJobArgs
    /\ fnRes = Pending
    /\ LsnIdle

FnNext ==
    \/ CallSplitMessage
    \/ CallScrapeNaverNews
    \/ CallArticleHash
    \/ CallLoadState
    \/ CallWasDoneToday
    \/ CallMarkDone
    \/ CallLoadSentHashes
    \/ CallScrapeAllKeywords
    \/ CallNewsJob
    \/ CallCmdNewsNow

FnSpec == FnInit /\ [][FnNext]_vars

(***************************************************************************)
(* Properties of single calls (checked under FnSpec).                      *)
(***************************************************************************)
RECURSIVE Concat(_)
Concat(seqs) == IF seqs = <<>> THEN <<>> ELSE Head(seqs) \o Concat(Tail(seqs))

\* C14: for a text longer than the cap, every chunk _split_message returns
\* is at most max_len long.
C14_ChunksWithinCap ==
    (HasReturned("_split_message") /\ Len(fnArg.text) > fnArg.max_len)
       => \A i \in 1 .. Len(fnRes.value) : Len(fnRes.value[i]) <= fnArg.max_len

\* C15: the chunks _split_message returns, concatenated in order, are the
\* text.
C15_ChunksConcatToText ==
    HasReturned("_split_message") => Concat(fnRes.value) = fnArg.text

\* What each strategy returns for the call being observed.
StrategyItems(name) ==
    LET n == fnArg.count + FetchMargin
    IN  CASE name = "sds" -> ParseSds(fnArg.soup, n)
          [] name = "legacy" -> ParseLegacy(fnArg.soup, n)
          [] name = "generic" -> ParseGeneric(fnArg.soup, n)

StrategyOrder == <<"sds", "legacy", "generic">>

\* The strategies were invoked in the order SDS, legacy, generic, each one
\* only after every earlier one returned nothing, and none after the first
\* that returned an item.
ChainOrdered ==
    LET inv == fnRes.value.invoked
    IN  /\ Len(inv) \in 1 .. 3
        /\ inv = SubSeq(StrategyOrder, 1, Len(inv))
        /\ \A i \in 1 .. Len(inv) - 1 : StrategyItems(inv[i]) = <<>>
        /\ Len(inv) < 3 => StrategyItems(inv[Len(inv)]) # <<>>

\* The items of the last strategy invoked.
WinnerItems == StrategyItems(fnRes.value.invoked[Len(fnRes.value.invoked)])

ScrapedDocument == HasReturned("scrape_naver_news") /\ fnRes.value.fetched

\* C12 (as stated): the strategies run in the order SDS, legacy, generic,
\* the first that returns an item ends the chain, and the result of
\* scrape_naver_news is that strategy's items verbatim.
C12_ResultVerbatim ==
    ScrapedDocument => (ChainOrdered /\ fnRes.value.articles = WinnerItems)

\* C12 (amended): the strategies run in the order SDS, legacy, generic, the
\* first that returns an item ends the chain, and the result is that
\* strategy's items, without the avian-flu items when the keyword is an AI
\* keyword, cut to the first count.
C12_ResultFilteredTruncated ==
    ScrapedDocument =>
        /\ ChainOrdered
        /\ fnRes.value.articles =
             Truncate(IF Normalize(fnArg.keyword) \in ai_keywords
                      THEN SelectSeq(WinnerItems, LAMBDA a : ~a.avian)
                      ELSE WinnerItems,
                      fnArg.count)

\* C12 witness: strategy 1 found nothing, strategy 2 found items, strategy 3
\* was not invoked and the result is strategy 2's items.
C12_Witness ==
    /\ ScrapedDocument
    /\ StrategyItems("sds") = <<>>
    /\ Len(StrategyItems("legacy")) = 2
    /\ StrategyItems("generic") # <<>>
    /\ fnRes.value.invoked = <<"sds", "legacy">>
    /\ fnRes.value.articles = StrategyItems("legacy")

\* The file is there but does not hold what its writer writes: for the job
\* state file a JSON object, for the hash file a JSON object whose "hashes"
\* (when present) is a list of strings.
StateFileMalformed(content) ==
    \/ content.kind \in {"not_utf8", "not_json"}
    \/ content.kind = "json" /\ content.value.t # "object"

HashFileMalformed(content) ==
    \/ StateFileMalformed(content)
    \/ /\ content.kind = "json"
       /\ "hashes" \in content.value.keys
       /\ LET h == content.value.val["hashes"]
          IN  \/ h.t # "array"
              \/ \E i \in 1 .. Len(h.items) : h.items[i].t # "string"

\* C17: on a missing or malformed file the readers and their callers do not
\* raise and work from the empty default: _load_state gives {},
\* _load_sent_hashes and scrape_all_keywords the empty set, _was_done_today
\* False, and _mark_done saves only the marker and the heartbeat.
C17_MalformedFallsBack ==
    LET c == fnArg.content
        stateDefault == c.kind = "missing" \/ StateFileMalformed(c)
        hashDefault == c.kind = "missing" \/ HashFileMalformed(c)
    IN  /\ (fnArg.fn = "_load_state" /\ fnRes.done /\ stateDefault)
              => (~fnRes.raised /\ fnRes.value = EmptyObj)
        /\ (fnArg.fn = "_was_done_today" /\ fnRes.done /\ stateDefault)
              => (~fnRes.raised /\ fnRes.value = FALSE)
        /\ (fnArg.fn = "_mark_done" /\ fnRes.done /\ stateDefault)
              => (~fnRes.raised /\ fnRes.value.keys = {fnArg.job_key, "_last_heartbeat"})
        /\ (fnArg.fn \in {"_load_sent_hashes", "scrape_all_keywords"}
               /\ fnRes.done /\ hashDefault)
              => (~fnRes.raised /\ fnRes.value = {})

(***************************************************************************)
(* The listener specification: the poll loop of the listener thread.       *)
(***************************************************************************)
ListenInit ==
    /\ SchedStart
    /\ AggStart(0)
    /\ FnIdle
    /\ LsnStart

ListenNext ==
    \/ ListenerPoll
    \/ ListenerBackoffDone
    \/ ListenerDispatch
    \/ HandlerEnd
    \/ ListenerBatchDone
    \/ ListenerErrorWake

ListenSpec == ListenInit /\ [][ListenNext]_vars

\* C13: the n-th Conflict response in a row is followed by a sleep of
\* min(5n, 30) seconds, and a successful poll sets the counter to 0, so the
\* next conflict sleeps 5 seconds.
C13_ConflictBackoff ==
    [][ /\ (lsn.pc = "poll" /\ lsn'.pc # "poll" /\ lsn'.resp = "conflict")
             => /\ lsn'.pc = "backoff"
                /\ lsn'.sleep = (IF 5 * streak' <= 30 THEN 5 * streak' ELSE 30)
        /\ (lsn.pc = "poll" /\ lsn'.pc # "poll" /\ lsn'.resp = "ok")
             => /\ lsn'.conflict_count = 0
                /\ lsn'.pc # "backoff" ]_vars

\* C13 witness: after an update was received, a third conflict in a row is
\* being slept on for 15 seconds.
C13_Witness ==
    /\ lsn.pc = "backoff"
    /\ lsn.offset > 0
    /\ streak = 3
    /\ lsn.sleep = 15

(***************************************************************************)
(* Properties of the command line of the scheduler and of its poll loop    *)
(* (checked under Spec).                                                   *)
(***************************************************************************)
\* weather_job / news_job, called by the --test branch, goes past its check
\* in this step.
TestJobChecks ==
    /\ mainT.ret = "test"
    /\ mainT.pc \in {"wj", "nj"}
    /\ mainT' # mainT
    /\ mainT'.pc # "down"

\* C18: run with --test, each job's body is invoked, also when the Job
\* State Store marks the job done today.
C18_TestBypassesIdempotency ==
    [][ TestJobChecks => mainT'.pc = "call" ]_vars

\* main() goes past the --now branch in this step, started with flag a.
Dispatches(a) ==
    /\ mainT.pc = "args"
    /\ mainT.args = a
    /\ mainT' # mainT
    /\ mainT'.pc # "down"

\* The main thread enters the poll loop for the first time in this step.
EntersLoop ==
    /\ mainT.pc \notin {"loop", "hb_save"}
    /\ mainT.ret # "loop"
    /\ mainT'.pc = "loop"

\* C19 (as stated): with --now the recovery runs before the poll loop, with
\* no flag the poll loop is entered without the recovery.
C19_RecoveryOnlyWithNow ==
    [][ /\ Dispatches("--now") => mainT'.pc = "rec_w"
        /\ Dispatches("none") => mainT'.pc = "loop" ]_vars

\* C19 (amended): with --now and with no flag alike, the recovery starts
\* right after the triggers are registered, and the poll loop is entered
\* only when the recovery has gone through the last trigger.
C19_RecoveryBeforeLoop ==
    [][ /\ (Dispatches("--now") \/ Dispatches("none")) => mainT'.pc = "rec_w"
        /\ EntersLoop => /\ mainT.pc = "rec_n"
                         /\ mainT.idx > Len(NEWS_SCHEDULE_TIMES) ]_vars

\* C19 witness: started with no flag, the recovery is running the body of a
\* missed job.
C19_Witness ==
    /\ mainT.args = "none"
    /\ mainT.ret = "rec"
    /\ mainT.pc = "call"

\* C20: while a job body dispatched by the scheduler loop is running, the
\* loop is not waiting for it: no other trigger that has come due is left
\* unpolled behind the running body.
C20_LoopsDoNotWait ==
    ~( /\ mainT.pc = "call"
       /\ mainT.ret = "loop"
       /\ \E j \in Triggers : j # mainT.idx /\ Due(j) )

(***************************************************************************)
(* Properties of the listener loop (checked under ListenSpec).             *)
(***************************************************************************)
\* The handling of the batch last received is over: the for loop ended or
\* an exception left it.
BatchOver ==
    /\ lsn.resp = "ok"
    /\ lsn.top >= 0
    /\ \/ lsn.pc = "error_sleep"
       \/ lsn.pc = "dispatch" /\ lsn.updates = <<>>

\* C21: once the handling of a received batch is over, the offset is
\* greater than the highest update_id of the batch, also when
\* handle_message raised on one of its updates.
C21_OffsetPastBatch == BatchOver => lsn.offset > lsn.top

\* The listener thread takes a step that an exception ends.
LoopBodyRaises ==
    /\ lsn.pc = "dispatch"
    /\ lsn.updates # <<>>
    /\ Head(lsn.updates).kind = "no_chat"
    /\ lsn'.pc # "dispatch"

\* C22: the listener loop never ends: an exception in the loop body takes
\* the thread to the sleep of the except clause and from there to the next
\* poll, and the end of a handler thread, by return or by exception, leaves
\* the loop where it is.
C22_LoopSurvivesExceptions ==
    /\ [](lsn.pc \in {"poll", "backoff", "dispatch", "error_sleep"})
    /\ [][ /\ LoopBodyRaises => lsn'.pc = "error_sleep"
           /\ (lsn.pc = "error_sleep" /\ lsn'.pc # "error_sleep") => lsn'.pc = "poll"
           /\ lsn'.running < lsn.running
                => (lsn'.pc = lsn.pc /\ lsn'.updates = lsn.updates) ]_vars

\* C22 witness: handle_message raised on the second update of a batch while
\* the handler thread of the first is running; the loop is in the sleep of
\* its except clause.
C22_Witness ==
    /\ lsn.pc = "error_sleep"
    /\ lsn.sleep = ErrorSleep
    /\ lsn.running = 1
    /\ lsn.handled[0] = 1
    /\ lsn.handled[1] = 1

\* C23: after a failed poll iteration (a conflict, an error response or an
\* exception of getUpdates, or an exception in the loop body) the next
\* poll is issued only after a sleep.
C23_DelayAfterFailure ==
    [][ ( /\ lsn.resp \in {"conflict", "error", "exception"} \/ lsn.pc = "error_sleep"
          /\ lsn.pc # "poll"
          /\ lsn'.pc = "poll" )
           => lsn.sleep > 0 ]_vars

(***************************************************************************)
(* Properties of the request loop and of the exclusion filter (checked     *)
(* under FnSpec).                                                          *)
(***************************************************************************)
\* C24: one keyword makes at most 3 requests (at most 2 retries), a 403 on
\* the first or second request is followed by another request, and when
\* all three meet a 403 scrape_naver_news returns the empty list without
\* raising, so the loop of scrape_all_keywords goes on.
C24_RateLimitRetries ==
    (fnArg.fn = "scrape_naver_news" /\ fnRes.done) =>
        /\ ~fnRes.raised
        /\ fnRes.value.requests \in 1 .. 3
        /\ \A i \in 1 .. 2 :
              (fnRes.value.requests >= i /\ fnArg.net[i] = "403")
                 => fnRes.value.requests > i
        /\ (\A i \in 1 .. 3 : fnArg.net[i] = "403")
              => (fnRes.value.requests = 3 /\ fnRes.value.articles = <<>>)

\* C24 witness: three requests were made, each met a 403, and the call
\* returned the empty list.
C24_Witness ==
    /\ HasReturned("scrape_naver_news")
    /\ \A i \in 1 .. 3 : fnArg.net[i] = "403"
    /\ fnRes.value.requests = 3
    /\ fnRes.value.articles = <<>>

\* C25: a request that fails otherwise than by a 403 is the last request
\* of the call, and the call returns no items.
C25_OtherFailuresNotRetried ==
    HasReturned("scrape_naver_news") =>
        \A i \in 1 .. fnRes.value.requests :
            fnArg.net[i] \in {"http_error", "conn_error"}
               => (fnRes.value.requests = i /\ fnRes.value.articles = <<>>)

\* Everything the strategy that ended the chain can find in the document.
WinnerCandidates ==
    LET name == fnRes.value.invoked[Len(fnRes.value.invoked)]
    IN  CASE name = "sds" -> fnArg.soup.sds
          [] name = "legacy" -> SelectSeq(fnArg.soup.legacy, LAMBDA a : a # NoTitle)
          [] name = "generic" -> fnArg.soup.generic

\* C26: for an AI keyword, when at least count of the candidates in the
\* document pass the exclusion filter, count items are returned.
C26_FilterKeepsCount ==
    ( /\ ScrapedDocument
      /\ Normalize(fnArg.keyword) \in ai_keywords
      /\ Len(SelectSeq(WinnerCandidates, LAMBDA a : ~a.avian)) >= fnArg.count )
       => Len(fnRes.value.articles) = fnArg.count

\* C27: _article_hash gives equal pairs the same fingerprint and pairs that
\* differ in the title or in the link different fingerprints (the digest
\* taken as injective).
C27_HashSeparatesPairs ==
    HasReturned("_article_hash") =>
        (fnRes.value[1] = fnRes.value[2] <=> fnArg.a = fnArg.b)

(***************************************************************************)
(* Properties of the retry sequences (checked under TestRunSpec).          *)
(***************************************************************************)
\* The retry thread t leaves its sleep in this step (the process is not
\* ended by the step).
RetryLeavesSleep(t) ==
    /\ threads[t].pc = "sleep"
    /\ threads'[t] # threads[t]
    /\ mainT'.pc # "down"

\* C28: a retry looks at the Job State Store right before it calls the job
\* body: a retry whose key is marked done today when its sleep is over ends
\* the retry sequence without calling the body, a retry whose key is not
\* marked calls it, and no retry calls the body in any other way.
C28_RetryRechecks ==
    [][ \A t \in Slots :
          /\ RetryLeavesSleep(t)
                => IF WasDoneToday(threads[t].key)
                   THEN threads'[t] = FreeThread /\ okDay' = okDay
                   ELSE threads'[t].pc = "call"
          /\ (threads[t].pc # "call" /\ threads'[t].pc = "call")
                => (threads[t].pc = "sleep" /\ ~WasDoneToday(threads[t].key)) ]_vars

\* C28 witness: a retry sequence for the weather job has ended on finding
\* the key marked done after its sleep: the marker was written meanwhile by
\* a --test run, and no weather retry sequence ran out.
C28_Witness ==
    /\ stopDay["weather"] = Today
    /\ markDay["weather"] = Today
    /\ WasDoneToday("weather")
    /\ exhaustDay["weather"] # Today
    /\ \A t \in Slots : threads[t].key # "weather"

(***************************************************************************)
(* Properties of exhaustion and of the date rollover (checked under Spec). *)
(***************************************************************************)
\* C29: once a retry sequence of a key has run out on a day, no job-body
\* call for that key begins again that day on the main thread (scheduled
\* trigger, recovery) or on a retry thread of a process not run with
\* --test.
C29_NoAttemptAfterExhaustion ==
    [][ \A k \in Keys :
          (exhaustDay[k] = Today /\ mainT'.ret # "test") => ~BodyCallBegins(k) ]_vars

\* A trigger of the scheduler (a scheduled run or the recovery) is evaluated
\* in this step: weather_job / news_job checks its key.
TriggerEvaluated ==
    /\ mainT.pc \in {"wj", "nj"}
    /\ mainT.ret # "test"
    /\ mainT' # mainT
    /\ mainT'.pc # "down"

\* C30: a key that _mark_done marked on a date is skipped by every trigger
\* evaluated on that date, and a key marked the day before, with no attempt
\* for it made or under way on the new date, has its body invoked by the
\* next trigger.
C30_DoneUntilRollover ==
    [][ TriggerEvaluated =>
          /\ markDay[CheckedKey] = Today => mainT'.pc # "call"
          /\ ( /\ markDay[CheckedKey] # 0
               /\ markDay[CheckedKey] = Today - 1
               /\ okDay[CheckedKey] # Today
               /\ exhaustDay[CheckedKey] # Today
               /\ InProgress(CheckedKey) = 0 ) => mainT'.pc = "call" ]_vars

(***************************************************************************)
(* Further properties of the aggregation runs (checked under AggSpec).     *)
(***************************************************************************)
\* C31: in the output of a scrape_all_keywords run no fingerprint occurs
\* twice, across all keywords, and no output item has a fingerprint that was
\* in the Dedup Store as the run loaded it.
C31_NoDuplicateInRun ==
    \A r \in RunSlots :
        /\ \A i, j \in 1 .. Len(runs[r].out) :
              i # j => Hash(runs[r].out[i]) # Hash(runs[r].out[j])
        /\ \A i \in 1 .. Len(runs[r].out) :
              Hash(runs[r].out[i]) \notin runs[r].sent.tracked

\* C31 witness: a run that loaded a store with fingerprints in it has
\* returned an output with one item for each keyword.
C31_Witness ==
    \E r \in RunSlots :
        /\ ScrapeComplete(r)
        /\ runs[r].sent.tracked # {}
        /\ Len(runs[r].out) = NumKeywords

(***************************************************************************)
(* Further properties of the scheduler process (checked under Spec).       *)
(***************************************************************************)
\* C32: whatever the Job State Store says, a manual command that arrives
\* while no handler runs starts its delivery attempt; and the start and the
\* end of a handler leave the Job State Store file as it is.
C32_ManualIgnoresStore ==
    /\ [](\A c \in Commands :
            (ListenerUp /\ cmd = NoCmd) => ENABLED CmdHandle(c))
    /\ [][ ( \/ cmd = NoCmd /\ cmd' # NoCmd
             \/ cmd # NoCmd /\ cmd' = NoCmd /\ mainT'.pc # "down" )
              => stateFile' = stateFile ]_vars

\* C32 witness: the /날씨 handler is delivering while the weather job is
\* marked done today.
C32_Witness ==
    /\ cmd = "weather"
    /\ WasDoneToday("weather")
    /\ markDay["weather"] = Today

(***************************************************************************)
(* Further properties of single calls (checked under FnSpec).              *)
(***************************************************************************)
\* C33: when the collection of every keyword fails on an error, the
\* send_news of a news_job attempt makes no send_message call and returns
\* ok = true with total = 0, and news_job marks the slot done and starts no
\* retry.
C33_TotalFailureCountsAsDone ==
    ( /\ HasReturned("news_job")
      /\ \A k \in DOMAIN fnArg.collected : fnArg.collected[k] = "error" )
        => /\ fnRes.value.calls = 0
           /\ fnRes.value.result = Result(FALSE, TRUE, 0)
           /\ fnRes.value.next = "mark_done"

\* In this step _recover_missed_jobs passes trigger j without invoking its
\* job.
RecoverySkips(j) ==
    IF j = 0 THEN mainT.pc = "rec_w" /\ mainT'.pc = "rec_n"
    ELSE /\ mainT.pc = "rec_n" /\ mainT.idx = j
         /\ mainT'.pc = "rec_n" /\ mainT'.idx = j + 1

\* C37: no slot is lost at startup: when the recovery pass does not invoke
\* the job of a trigger whose key is not marked done today, the scheduled
\* fire registered for that trigger is one of today.
C37_NoSlotLostAtStartup ==
    [][ \A j \in Triggers :
            (RecoverySkips(j) /\ ~WasDoneToday(TrigKey(j))) => nextRun[j] = Today ]_vars

\* C38: the key news_job derives from the wall clock when a scheduled fire
\* runs it equals the key recovery derives from the configured hour of the
\* same trigger.
C38_FireKeyIsTriggerKey ==
    (mainT.pc = "nj" /\ mainT.ret = "loop") => NewsJobKey(mainT) = TrigKey(mainT.idx)

(***************************************************************************)
(* Properties of the scheduler around midnight (checked under              *)
(* MidnightSpec).                                                          *)
(***************************************************************************)
\* The step is the _mark_done of retry thread t writing the marker.
RetryMarks(t) ==
    /\ threads[t].pc = "save"
    /\ threads'[t] = FreeThread
    /\ mainT' = mainT
    /\ markDay'[threads[t].key] = Today

\* C36: a completion marker for a date is written only by an invocation
\* that was triggered on that date: when a retry thread's _mark_done writes
\* today's marker, the weather_job / news_job that started the thread was
\* invoked today.
C36_MarkerOnTriggerDate ==
    [][ \A t \in Slots : RetryMarks(t) => threads[t].born = Today ]_vars

(***************************************************************************)
(* Further properties of the listener (checked under ListenSpec).          *)
(***************************************************************************)
\* C39: the listener's offset never decreases, and handle_message is called
\* at most once on any update_id, whatever polls, conflicts, error
\* responses and handler exceptions the loop goes through.
C39_OffsetMonotonicNoRepeat ==
    /\ [][ lsn'.offset >= lsn.offset ]_vars
    /\ [](\A i \in 0 .. MaxUpdateId : lsn.handled[i] <= 1)

\* C39 witness: handle_message has raised on update 2 after updates 0 and 1
\* were handled, and the offset stands past all three.
C39_Witness ==
    /\ lsn.pc = "error_sleep"
    /\ lsn.offset = 3
    /\ \A i \in 0 .. 2 : lsn.handled[i] = 1

====
